---- MODULE Spec2Model ----
(***************************************************************************)
(* Plan reconciliation and recovery of automaker's server.                 *)
(*                                                                         *)
(* Encoding of the TypeScript values:                                      *)
(*   - a string timestamp is a natural number, 0 standing for undefined;   *)
(*   - an undefined string is "", an undefined task id is <<>>;            *)
(*   - an undefined counter (tasksCompleted, tasksTotal) is -1;            *)
(*   - an undefined or empty array is <<>> (the code treats both alike);   *)
(*   - a task id "T007" is the sequence of its digits <<0, 0, 7>>;         *)
(*   - a text (plan content, agent-output.md) is a sequence of lines, each *)
(*     line a record that says what the regular expressions of the         *)
(*     extractor see in it;                                                *)
(*   - a feature id or a branch name is a sequence of characters.          *)
(***************************************************************************)
EXTENDS Integers, Sequences, FiniteSets, TLC

VARIABLES
    features,   \* persisted records: feature id -> Feature (feature.json)
    fs,         \* project files: Location -> mtime, 0 when the file is absent
    outputs,    \* agent-output.md of each feature: a text, or NoOutput
    lastOp,     \* the last request served on the routes, and what it wrote
    settled,    \* records a reconciling handler looked at, nothing changed since
    changes,    \* number of changes made around the routes so far
    report,     \* the answer of the last recovery-center request, or NoReport
    resume,     \* the agent resume the last request started, or NoResume
    rfeature,   \* reconcile in isolation: the record object passed in
    rfs,        \* reconcile in isolation: the files
    routput,    \* reconcile in isolation: agent-output.md of the record
    rcall,      \* reconcile in isolation: which calls were made so far
    rafter,     \* reconcile in isolation: the record object after the first call
    r1,         \* reconcile in isolation: result of the first call
    r2,         \* reconcile in isolation: result of the second call
    dfeatures,  \* dependency restore: the records (id, dependencies, plan text)
    dbackups,   \* dependency restore: feature.json.bak1..3 of each record
    dprev,      \* dependency restore: the records before the last request
    dresp,      \* dependency restore: the last request and its answer
    eindex,     \* event store: index.json of each project, or NoIndexFile
    efiles,     \* event store: the event files of each project (ids)
    ecache,     \* event store: what the cache entry of each project refers to
    eown,       \* event store: the index object of its own a project has cached
    edefault,   \* event store: the object DEFAULT_EVENT_HISTORY_INDEX
    enext,      \* event store: the id the next stored event gets
    estored,    \* event store: the ids stored in each project, oldest first
    ecalls,     \* event store: what kind of calls were made so far, on which projects
    eop,        \* event store: the last call and what it returned
    wclock,     \* index writes: what Date.now() returns
    wdir,       \* index writes: the events directory, path -> file (0: no entry)
    wfiles,     \* index writes: the files, each a content, whole or partial
    wmem,       \* index writes: the summaries of the cached index object
    wpc,        \* index writes: where each call is
    wjob,       \* index writes: what each call writes, and where
    wcrashed,   \* index writes: the process has crashed
    wseen,      \* index writes: what was observed of the writes so far
    subscribers,\* event fan-out: the callbacks subscribed, in registration order
    queue,      \* event fan-out: the events queued in batching mode
    flushTimer, \* event fan-out: the variable flushTimer (0: null)
    timers,     \* event fan-out: the timers set and not yet fired
    emitted,    \* event fan-out: number of events emitted so far
    delivered,  \* event fan-out: the calls made to each callback, in order
    fanout,     \* event fan-out: configuration, and what the last call did
    xline,      \* task extractor: the line given to parseTaskLineFlexible
    xtask,      \* task extractor: what it returned (<<>>: null)
    xpc,        \* task extractor: "init", then "parsed"
    sindex,     \* store steps: the summaries in index.json of the project
    sfiles,     \* store steps: the event files of the project
    sdefault,   \* store steps: the events of the object DEFAULT_EVENT_HISTORY_INDEX
    sheap,      \* store steps: the events of each index object JSON.parse made
    scache,     \* store steps: the index object cached (-1: no entry, 0: the default object)
    scall,      \* store steps: where each call is and what it holds
    sseen,      \* store steps: what was observed of the calls so far
    astore,     \* apply-plan: the feature records FeatureLoader holds
    aplan,      \* apply-plan: the plan of the request
    aresp       \* apply-plan: the response and what the handler deleted

routeVars == <<features, fs, outputs, lastOp, settled, changes, report, resume>>
reconcileVars == <<rfeature, rfs, routput, rcall, rafter, r1, r2>>
depVars == <<dfeatures, dbackups, dprev, dresp>>

\* the variables of the dependency restorer while another part of the
\* program is looked at
DepIdle ==
    /\ dfeatures = <<>>
    /\ dbackups = <<>>
    /\ dprev = <<>>
    /\ dresp = <<>>

\* the variables of the event store while another part of the program is
\* looked at
EventIdle ==
    /\ eindex = <<>>
    /\ efiles = <<>>
    /\ ecache = <<>>
    /\ eown = <<>>
    /\ edefault = <<>>
    /\ enext = 0
    /\ estored = <<>>
    /\ ecalls = {}
    /\ eop = <<>>
eventVars == <<eindex, efiles, ecache, eown, edefault, enext, estored, ecalls, eop>>

\* the variables of the index writes while another part of the program is
\* looked at
WriteIdle ==
    /\ wclock = 0
    /\ wdir = <<>>
    /\ wfiles = <<>>
    /\ wmem = <<>>
    /\ wpc = <<>>
    /\ wjob = <<>>
    /\ wcrashed = FALSE
    /\ wseen = <<>>
writeVars == <<wclock, wdir, wfiles, wmem, wpc, wjob, wcrashed, wseen>>

\* the variables of the event fan-out while another part of the program is
\* looked at
FanIdle ==
    /\ subscribers = <<>>
    /\ queue = <<>>
    /\ flushTimer = 0
    /\ timers = 0
    /\ emitted = 0
    /\ delivered = <<>>
    /\ fanout = <<>>
fanVars == <<subscribers, queue, flushTimer, timers, emitted, delivered, fanout>>

\* the variables of the task extractor while another part of the program
\* is looked at
ExtractIdle ==
    /\ xline = <<>>
    /\ xtask = <<>>
    /\ xpc = ""
extractVars == <<xline, xtask, xpc>>

\* the variables of the store calls followed step by step while another
\* part of the program is looked at
StepIdle ==
    /\ sindex = <<>>
    /\ sfiles = {}
    /\ sdefault = <<>>
    /\ sheap = <<>>
    /\ scache = -1
    /\ scall = <<>>
    /\ sseen = <<>>
stepVars == <<sindex, sfiles, sdefault, sheap, scache, scall, sseen>>

\* the variables of apply-plan while another part of the program is
\* looked at
ApplyIdle ==
    /\ astore = <<>>
    /\ aplan = <<>>
    /\ aresp = <<>>
applyVars == <<astore, aplan, aresp>>

\* the parts of the program that are looked at one at a time
PartsIdle == ExtractIdle /\ StepIdle /\ ApplyIdle
partVars == <<extractVars, stepVars, applyVars>>
vars == <<routeVars, reconcileVars, depVars, eventVars, writeVars, fanVars, partVars>>

(***************************************************************************)
(* Bounds of the model.                                                    *)
(***************************************************************************)
\* longest attached task list drawn as an input of reconcile
MaxTasks == 2
\* most changes made to the files and to the records around the routes
MaxChanges == 1
\* most events stored in the event history store
MaxStores == 3

(***************************************************************************)
(* Values.                                                                 *)
(***************************************************************************)
NoId == <<>>
NoOutput == <<[k |-> "absent"]>>

TaskStatuses == {"pending", "in_progress", "completed", "failed"}

\* filePath of a task: absolute or relative; NoPath is an undefined filePath
NoPath == [abs |-> FALSE, name |-> ""]
RelA == [abs |-> FALSE, name |-> "a.ts"]
AbsB == [abs |-> TRUE, name |-> "b.ts"]

F1 == <<"f", "1">>
F2 == <<"f", "2">>
NoBranch == <<>>
BranchX == <<"f", "e", "a", "t", "/", "x">>

(***************************************************************************)
(* Task Extractor (plan-reconcile.ts).                                     *)
(***************************************************************************)
\* A line of text. k says what the line is:
\*   "task"       <prefix><word><digits>: <desc>[ | File: <file>]
\*   "phase"      ## <desc>
\*   "fenceOpen"  ```tasks          "fenceClose"  ```
\*   "marker"     [SPEC_GENERATED]  "text"        anything else
Line(k, prefix, word, digits, desc, file) ==
    [k |-> k, prefix |-> prefix, word |-> word, digits |-> digits, desc |-> desc, file |-> file]
TextLine(s) == Line("text", "", "", <<>>, s, NoPath)
PhaseLine(s) == Line("phase", "", "", <<>>, s, NoPath)
FenceOpen == Line("fenceOpen", "", "", <<>>, "", NoPath)
FenceClose == Line("fenceClose", "", "", <<>>, "", NoPath)
Marker == Line("marker", "", "", <<>>, "", NoPath)
TaskLine(prefix, word, digits, desc, file) == Line("task", prefix, word, digits, desc, file)

\* a task as the extractor builds it and as planSpec.tasks holds it
Task(id, description, filePath, phase, status, startedAt, completedAt) ==
    [id |-> id, description |-> description, filePath |-> filePath, phase |-> phase,
     status |-> status, startedAt |-> startedAt, completedAt |-> completedAt]

\* String.padStart(3, '0') on the digits of an id
RECURSIVE PadStart3(_)
PadStart3(digits) == IF Len(digits) >= 3 THEN digits ELSE PadStart3(<<0>> \o digits)

\* normalizeTaskId: <<>> stands for null (no digit in the raw id)
NormalizeTaskId(digits) == IF digits = <<>> THEN <<>> ELSE PadStart3(digits)

\* What is left of a line's leading marker after the three replace() calls:
\* /^-\s*\[\s*\]\s*/, then /^\d+\.\s*/, then /^-\s*/. A checked box "- [x] "
\* loses only its dash and leaves "[x] " in front of the id.
StripPrefix(prefix) ==
    CASE prefix = "" -> ""
      [] prefix = "- [ ] " -> ""
      [] prefix = "1. " -> ""
      [] prefix = "- " -> ""
      [] prefix = "- [x] " -> "[x] "
      [] prefix = "- [>] " -> "[>] "
      [] OTHER -> prefix

\* /^(T\d+)\s*[:\-]/i and /^(?:Task)\s*(\d+)\s*[:\-]/i
WordMatches(word) == word \in {"T", "t", "Task", "task", "Task ", "task "}

\* parseTaskLineFlexible: <<>> for null, else <<task>>
ParseTaskLineFlexible(line, currentPhase) ==
    IF line.k # "task" THEN <<>>
    ELSE IF StripPrefix(line.prefix) # "" THEN <<>>
    ELSE IF ~WordMatches(line.word) \/ line.digits = <<>> THEN <<>>
    ELSE <<Task(NormalizeTaskId(line.digits), line.desc, line.file, currentPhase,
                "pending", 0, 0)>>

\* index of the first line of kind k at or after position i, 0 when none
RECURSIVE IndexOfKind(_, _, _)
IndexOfKind(lines, kinds, i) ==
    IF i > Len(lines) THEN 0
    ELSE IF lines[i].k \in kinds THEN i
    ELSE IndexOfKind(lines, kinds, i + 1)

\* content.match(/```tasks\s*([\s\S]*?)```/): the lines between the first
\* ```tasks and the next ``` (which may be the start of another ```tasks)
TasksBlock(content) ==
    LET open == IndexOfKind(content, {"fenceOpen"}, 1)
        close == IF open = 0 THEN 0
                 ELSE IndexOfKind(content, {"fenceOpen", "fenceClose"}, open + 1)
    IN IF open = 0 \/ close = 0 THEN content
       ELSE SubSeq(content, open + 1, close - 1)

RECURSIVE ScanLines(_, _, _, _)
ScanLines(lines, i, currentPhase, tasks) ==
    IF i > Len(lines) THEN tasks
    ELSE IF lines[i].k = "phase" THEN ScanLines(lines, i + 1, lines[i].desc, tasks)
    ELSE ScanLines(lines, i + 1, currentPhase,
                   tasks \o ParseTaskLineFlexible(lines[i], currentPhase))

\* parseTasksFromContent
ParseTasksFromContent(content) ==
    IF content = <<>> THEN <<>> ELSE ScanLines(TasksBlock(content), 1, "", <<>>)

(***************************************************************************)
(* Files.                                                                  *)
(***************************************************************************)
\* sanitizeWorktreeName: name.replace(/[^a-zA-Z0-9_-]/g, '-')
NameChars == {"f", "e", "a", "t", "x", "1", "2", "_", "-"}
SanitizeWorktreeName(name) ==
    [i \in 1..Len(name) |-> IF name[i] \in NameChars THEN name[i] ELSE "-"]

\* getWorktreeRoots: <projectPath>/.worktrees/<sanitized name>
GetWorktreeRoots(feature) ==
    (IF feature.branchName # <<>> THEN <<SanitizeWorktreeName(feature.branchName)>> ELSE <<>>)
    \o (IF feature.id # <<>> THEN <<SanitizeWorktreeName(feature.id)>> ELSE <<>>)

\* a place on disk: the path itself when absolute, else under the project
\* root (wt = <<>>) or under the worktree directory wt
AbsLoc(name) == [base |-> "abs", wt |-> <<>>, name |-> name]
ProjectLoc(name) == [base |-> "project", wt |-> <<>>, name |-> name]
WorktreeLoc(wt, name) == [base |-> "worktree", wt |-> wt, name |-> name]

CandidatePaths(feature, filePath) ==
    IF filePath.abs THEN <<AbsLoc(filePath.name)>>
    ELSE LET roots == GetWorktreeRoots(feature)
         IN <<ProjectLoc(filePath.name)>>
            \o [i \in 1..Len(roots) |-> WorktreeLoc(roots[i], filePath.name)]

\* secureFs.stat: the mtime of the file, 0 when stat throws
Stat(files, loc) == IF loc \in DOMAIN files THEN files[loc] ELSE 0

\* the first candidate that stat finds, 0 when none
RECURSIVE FirstFound(_, _, _)
FirstFound(files, candidates, i) ==
    IF i > Len(candidates) THEN 0
    ELSE IF Stat(files, candidates[i]) # 0 THEN i
    ELSE FirstFound(files, candidates, i + 1)

(***************************************************************************)
(* Plan Reconciler (plan-reconcile.ts).                                    *)
(***************************************************************************)
\* planSpec of a record; EmptyPlanSpec is the object {}
PlanSpec(status, content, tasks, tasksCompleted, tasksTotal, currentTaskId) ==
    [status |-> status, content |-> content, tasks |-> tasks,
     tasksCompleted |-> tasksCompleted, tasksTotal |-> tasksTotal,
     currentTaskId |-> currentTaskId]
EmptyPlanSpec == PlanSpec("", <<>>, <<>>, -1, -1, NoId)

\* a record; hasPlanSpec = FALSE when feature.planSpec is undefined
Feature(id, status, branchName, startedAt, hasPlanSpec, planSpec) ==
    [id |-> id, status |-> status, branchName |-> branchName, startedAt |-> startedAt,
     hasPlanSpec |-> hasPlanSpec, planSpec |-> planSpec]

NullResult ==
    [isNull |-> TRUE, tasks |-> <<>>, tasksCompleted |-> 0, tasksTotal |-> 0,
     currentTaskId |-> NoId, missingFiles |-> <<>>]

\* lines 139-140: the text before [SPEC_GENERATED] when the marker is not at
\* index 0, else the whole output
PlanContentOfOutput(output) ==
    LET markerIndex == IndexOfKind(output, {"marker"}, 1)
    IN IF markerIndex > 1 THEN SubSeq(output, 1, markerIndex - 1) ELSE output

\* lines 110-149 with the fallback to agent-output.md taken whenever the
\* record has no task so far, a plan text or not
ResolvePlanSpecAlwaysFallback(output, feature) ==
    LET f0 == [feature EXCEPT !.hasPlanSpec = TRUE]
        p0 == f0.planSpec
        parsed1 == ParseTasksFromContent(p0.content)
        p1 == IF p0.tasks = <<>> /\ p0.content # <<>> /\ parsed1 # <<>>
              THEN [p0 EXCEPT !.tasks = parsed1] ELSE p0
        planContent == PlanContentOfOutput(output)
        parsed2 == ParseTasksFromContent(planContent)
        p2 == IF p1.tasks = <<>> /\ output # NoOutput /\ parsed2 # <<>>
              THEN [p1 EXCEPT !.tasks = parsed2, !.content = planContent] ELSE p1
    IN [f0 EXCEPT !.planSpec = p2]

\* lines 110-149: the record object after reconcile has looked for its tasks.
\* The assignments are made on the object the caller passed.
ResolvePlanSpec(output, feature) ==
    LET f0 == [feature EXCEPT !.hasPlanSpec = TRUE]
        p0 == f0.planSpec
        parsed1 == ParseTasksFromContent(p0.content)
        p1 == IF p0.tasks = <<>> /\ p0.content # <<>> /\ parsed1 # <<>>
              THEN [p0 EXCEPT !.tasks = parsed1] ELSE p0
        planContent == PlanContentOfOutput(output)
        parsed2 == ParseTasksFromContent(planContent)
        p2 == IF p1.tasks = <<>> /\ p1.content = <<>> /\ output # NoOutput /\ parsed2 # <<>>
              THEN [p1 EXCEPT !.tasks = parsed2, !.content = planContent] ELSE p1
    IN [f0 EXCEPT !.planSpec = p2]

\* lines 155-202 with a miss that only records the missing file and leaves
\* the status as it is
ReconcileTaskKeepStatus(files, feature, task) ==
    LET t0 == [task EXCEPT !.status = IF @ = "" THEN "pending" ELSE @]
        t1 == IF t0.status = "in_progress" /\ t0.startedAt = 0 /\ feature.startedAt # 0
              THEN [t0 EXCEPT !.startedAt = feature.startedAt] ELSE t0
        candidates == CandidatePaths(feature, t1.filePath)
        found == FirstFound(files, candidates, 1)
    IN IF t1.filePath = NoPath THEN [task |-> t1, missing |-> <<>>]
       ELSE IF found # 0
       THEN [task |-> [t1 EXCEPT !.status = "completed",
                                 !.completedAt = IF @ = 0 THEN Stat(files, candidates[found])
                                                 ELSE @],
             missing |-> <<>>]
       ELSE [task |-> t1, missing |-> <<t1.filePath>>]

\* lines 155-202 with a miss that forces pending whatever the status was
ReconcileTaskResetFailed(files, feature, task) ==
    LET t0 == [task EXCEPT !.status = IF @ = "" THEN "pending" ELSE @]
        t1 == IF t0.status = "in_progress" /\ t0.startedAt = 0 /\ feature.startedAt # 0
              THEN [t0 EXCEPT !.startedAt = feature.startedAt] ELSE t0
        candidates == CandidatePaths(feature, t1.filePath)
        found == FirstFound(files, candidates, 1)
    IN IF t1.filePath = NoPath THEN [task |-> t1, missing |-> <<>>]
       ELSE IF found # 0
       THEN [task |-> [t1 EXCEPT !.status = "completed",
                                 !.completedAt = IF @ = 0 THEN Stat(files, candidates[found])
                                                 ELSE @],
             missing |-> <<>>]
       ELSE [task |-> [t1 EXCEPT !.status = "pending"], missing |-> <<t1.filePath>>]

\* lines 155-202, one task: [task, missing], missing being <<>> or <<filePath>>
ReconcileTask(files, feature, task) ==
    LET t0 == [task EXCEPT !.status = IF @ = "" THEN "pending" ELSE @]
        t1 == IF t0.status = "in_progress" /\ t0.startedAt = 0 /\ feature.startedAt # 0
              THEN [t0 EXCEPT !.startedAt = feature.startedAt] ELSE t0
        candidates == CandidatePaths(feature, t1.filePath)
        found == FirstFound(files, candidates, 1)
    IN IF t1.filePath = NoPath THEN [task |-> t1, missing |-> <<>>]
       ELSE IF found # 0
       THEN [task |-> [t1 EXCEPT !.status = "completed",
                                 !.completedAt = IF @ = 0 THEN Stat(files, candidates[found])
                                                 ELSE @],
             missing |-> <<>>]
       ELSE [task |-> [t1 EXCEPT !.status = IF @ = "failed" THEN "failed" ELSE "pending"],
             missing |-> <<t1.filePath>>]

RECURSIVE FlattenMissing(_, _)
FlattenMissing(done, i) ==
    IF i > Len(done) THEN <<>> ELSE done[i].missing \o FlattenMissing(done, i + 1)

\* tasks.filter((task) => task.status === 'completed').length
RECURSIVE CountCompleted(_, _)
CountCompleted(tasks, i) ==
    IF i > Len(tasks) THEN 0
    ELSE (IF tasks[i].status = "completed" THEN 1 ELSE 0) + CountCompleted(tasks, i + 1)

\* tasks.find((task) => task.status !== 'completed')?.id
RECURSIVE NextPendingId(_, _)
NextPendingId(tasks, i) ==
    IF i > Len(tasks) THEN NoId
    ELSE IF tasks[i].status # "completed" THEN tasks[i].id
    ELSE NextPendingId(tasks, i + 1)

\* tasks.find((task) => task.status === 'pending')?.id
RECURSIVE FirstPendingId(_, _)
FirstPendingId(tasks, i) ==
    IF i > Len(tasks) THEN NoId
    ELSE IF tasks[i].status = "pending" THEN tasks[i].id
    ELSE FirstPendingId(tasks, i + 1)

\* lines 204-218 with currentTaskId taken from the first pending task
SummarizeTasksFirstPending(tasks, missingFiles) ==
    [isNull |-> FALSE, tasks |-> tasks,
     tasksCompleted |-> CountCompleted(tasks, 1), tasksTotal |-> Len(tasks),
     currentTaskId |-> FirstPendingId(tasks, 1), missingFiles |-> missingFiles]

\* lines 204-218
SummarizeTasks(tasks, missingFiles) ==
    [isNull |-> FALSE, tasks |-> tasks,
     tasksCompleted |-> CountCompleted(tasks, 1), tasksTotal |-> Len(tasks),
     currentTaskId |-> NextPendingId(tasks, 1), missingFiles |-> missingFiles]

\* reconcileFeaturePlanSpec with currentTaskId found in the task list as it
\* was before the files were looked at
ReconcileFeaturePlanSpecStaleCurrent(files, output, feature) ==
    LET resolved == ResolvePlanSpec(output, feature)
        input == resolved.planSpec.tasks
        done == [i \in 1..Len(input) |-> ReconcileTask(files, feature, input[i])]
        tasks == [i \in 1..Len(input) |-> done[i].task]
    IN [feature |-> resolved,
        result |-> IF input = <<>> THEN NullResult
                   ELSE [SummarizeTasks(tasks, FlattenMissing(done, 1))
                            EXCEPT !.currentTaskId = NextPendingId(input, 1)]]

\* reconcileFeaturePlanSpec: the result, and the record object as the call
\* leaves it
ReconcileFeaturePlanSpec(files, output, feature) ==
    LET resolved == ResolvePlanSpec(output, feature)
        input == resolved.planSpec.tasks
        done == [i \in 1..Len(input) |-> ReconcileTask(files, feature, input[i])]
        tasks == [i \in 1..Len(input) |-> done[i].task]
    IN [feature |-> resolved,
        result |-> IF input = <<>> THEN NullResult
                   ELSE SummarizeTasks(tasks, FlattenMissing(done, 1))]

\* hasPlanSpecChanges comparing the two task arrays themselves and not their
\* JSON text: two different arrays are never equal
HasPlanSpecChangesByIdentity(currentPlanSpec, reconciled) == TRUE

\* hasPlanSpecChanges: JSON.stringify of the two task lists, then the counters
HasPlanSpecChanges(currentPlanSpec, reconciled) ==
    \/ currentPlanSpec.tasks # reconciled.tasks
    \/ (IF currentPlanSpec.tasksCompleted = -1 THEN 0 ELSE currentPlanSpec.tasksCompleted)
           # reconciled.tasksCompleted
    \/ (IF currentPlanSpec.tasksTotal = -1 THEN 0 ELSE currentPlanSpec.tasksTotal)
           # reconciled.tasksTotal
    \/ currentPlanSpec.currentTaskId # reconciled.currentTaskId

\* the status repair test without the look at planSpec.status
ShouldDowngradeStatusAnyPlan(feature, currentPlanSpec, reconciled) ==
    /\ reconciled.tasksCompleted < reconciled.tasksTotal
    /\ feature.status \in {"waiting_approval", "verified", "completed"}

\* the status repair test the handlers share
ShouldDowngradeStatus(feature, currentPlanSpec, reconciled) ==
    /\ currentPlanSpec.status = "approved"
    /\ reconciled.tasksCompleted < reconciled.tasksTotal
    /\ feature.status \in {"waiting_approval", "verified", "completed"}

\* { ...currentPlanSpec, tasksCompleted, tasksTotal, currentTaskId }
UpdatedPlanSpecStaleTasks(currentPlanSpec, reconciled) ==
    [currentPlanSpec EXCEPT !.tasksCompleted = reconciled.tasksCompleted,
                            !.tasksTotal = reconciled.tasksTotal,
                            !.currentTaskId = reconciled.currentTaskId]

\* { ...currentPlanSpec, tasks, tasksCompleted, tasksTotal, currentTaskId }
UpdatedPlanSpec(currentPlanSpec, reconciled) ==
    [currentPlanSpec EXCEPT !.tasks = reconciled.tasks,
                            !.tasksCompleted = reconciled.tasksCompleted,
                            !.tasksTotal = reconciled.tasksTotal,
                            !.currentTaskId = reconciled.currentTaskId]

(***************************************************************************)
(* Reconcile in isolation: the inputs are drawn in ReconcileInit, then the *)
(* function is called once, and a second time either on the same record    *)
(* object or on the record with the first result merged into its planSpec. *)
(***************************************************************************)
\* timestamps already on the records when the model starts
Stamp == [featureStarted |-> 5, taskStarted |-> 6, taskCompleted |-> 9]
StartedFeature == Stamp.featureStarted
StartedTask == Stamp.taskStarted
CompletedTask == Stamp.taskCompleted

\* tasks an attached list is made of; position i of a list gets the id T00i
TaskPool ==
    {Task(NoId, "d", fp, "", st, 0, 0) : fp \in {NoPath, RelA}, st \in TaskStatuses}
    \cup {Task(NoId, "d", AbsB, "", st, 0, 0) : st \in {"pending", "completed", "failed"}}
    \cup {Task(NoId, "d", fp, "", "completed", 0, CompletedTask) : fp \in {NoPath, RelA}}
    \cup {Task(NoId, "d", NoPath, "", "", 0, 0),
          Task(NoId, "d", NoPath, "", "in_progress", StartedTask, 0)}

TaskLists ==
    UNION {{[i \in 1..n |-> [pick[i] EXCEPT !.id = PadStart3(<<i>>)]] :
                pick \in [1..n -> TaskPool]} : n \in 1..MaxTasks}

\* plan texts
ProseContent == <<TextLine("intro")>>
ListContent ==
    <<PhaseLine("Phase 1"), TaskLine("- [ ] ", "T", <<1>>, "d1", RelA),
      TaskLine("", "Task ", <<0, 2>>, "d2", NoPath)>>
FencedContent ==
    <<TaskLine("", "T", <<9>>, "d9", NoPath), FenceOpen,
      TaskLine("1. ", "T", <<1>>, "d1", AbsB), FenceClose>>
CheckedContent == <<TaskLine("- [x] ", "T", <<0, 0, 1>>, "d1", RelA)>>
DuplicateContent ==
    <<TaskLine("", "T", <<1>>, "d1", RelA), TaskLine("- ", "t", <<0, 0, 1>>, "d2", NoPath)>>
Contents == {<<>>, ProseContent, ListContent, FencedContent, CheckedContent, DuplicateContent}

\* agent-output.md
Outputs ==
    {NoOutput, ProseContent, CheckedContent,
     ListContent \o <<Marker, TaskLine("", "T", <<5>>, "d5", NoPath)>>,
     <<Marker, TaskLine("", "T", <<7>>, "d7", RelA)>>}

ReconcileLocations ==
    {ProjectLoc("a.ts"), WorktreeLoc(SanitizeWorktreeName(BranchX), "a.ts"),
     WorktreeLoc(SanitizeWorktreeName(F1), "a.ts"), AbsLoc("b.ts")}

\* the mtime a file has when it exists, one value for each place
MtimeOf(loc) ==
    CASE loc.base = "project" -> 1
      [] loc.base = "abs" -> 4
      [] loc.wt = SanitizeWorktreeName(F1) -> 3
      [] OTHER -> 2

FileStates ==
    {[loc \in ReconcileLocations |-> IF loc \in present THEN MtimeOf(loc) ELSE 0] :
        present \in SUBSET ReconcileLocations}

\* the records reconcile is called on
ReconcileInputs ==
    {Feature(F1, "verified", b[1], b[2], TRUE, PlanSpec("approved", <<>>, ts, -1, -1, NoId)) :
        ts \in TaskLists,
        b \in {<<BranchX, StartedFeature>>, <<NoBranch, StartedFeature>>, <<BranchX, 0>>}}
    \cup {Feature(F1, "verified", BranchX, StartedFeature, TRUE,
                  PlanSpec("approved", c, <<>>, -1, -1, NoId)) : c \in Contents}
    \cup {Feature(F1, "verified", BranchX, StartedFeature, FALSE, EmptyPlanSpec)}

ReconcileInit ==
    /\ rfeature \in ReconcileInputs
    /\ rfs \in FileStates
    /\ routput \in (IF rfeature.planSpec.tasks = <<>> THEN Outputs ELSE {NoOutput})
    /\ rcall = "init"
    /\ rafter = rfeature
    /\ r1 = NullResult
    /\ r2 = NullResult
    /\ features = <<>>
    /\ fs = <<>>
    /\ outputs = <<>>
    /\ lastOp = <<>>
    /\ settled = {}
    /\ changes = 0
    /\ report = <<>>
    /\ resume = <<>>
    /\ DepIdle
    /\ EventIdle
    /\ WriteIdle
    /\ FanIdle /\ PartsIdle

\* the first call
CallReconcile ==
    /\ rcall = "init"
    /\ LET call == ReconcileFeaturePlanSpec(rfs, routput, rfeature)
       IN /\ r1' = call.result
          /\ rafter' = call.feature
    /\ rcall' = "once"
    /\ UNCHANGED <<rfeature, rfs, routput, r2, routeVars, depVars, eventVars, writeVars, fanVars, partVars>>

\* the first result is merged into the record's planSpec as the handlers do,
\* and reconcile is called on the merged record
MergeAndReconcile ==
    /\ rcall = "once"
    /\ ~r1.isNull
    /\ LET merged == [rafter EXCEPT !.planSpec = UpdatedPlanSpec(rafter.planSpec, r1)]
           call == ReconcileFeaturePlanSpec(rfs, routput, merged)
       IN /\ r2' = call.result
          /\ rafter' = call.feature
    /\ rcall' = "merged"
    /\ UNCHANGED <<rfeature, rfs, routput, r1, routeVars, depVars, eventVars, writeVars, fanVars, partVars>>

\* reconcile is called a second time on the same record object
ReconcileAgain ==
    /\ rcall = "once"
    /\ LET call == ReconcileFeaturePlanSpec(rfs, routput, rafter)
       IN /\ r2' = call.result
          /\ rafter' = call.feature
    /\ rcall' = "again"
    /\ UNCHANGED <<rfeature, rfs, routput, r1, routeVars, depVars, eventVars, writeVars, fanVars, partVars>>

ReconcileNext == CallReconcile \/ MergeAndReconcile \/ ReconcileAgain

SpecReconcile == ReconcileInit /\ [][ReconcileNext]_vars

(***************************************************************************)
(* Output Rebuilder (rebuild-output-utils.ts).                             *)
(***************************************************************************)
\* one "- [x] T001: description | File: path" line of the Task Status section
RebuiltTaskLine(task) ==
    TaskLine(IF task.status = "completed" THEN "- [x] "
             ELSE IF task.status = "in_progress" THEN "- [>] " ELSE "- [ ] ",
             "T", task.id, task.description, task.filePath)

\* the Files Found rows: the tasks whose file stat finds at the path itself
\* when absolute, else under the project root
RECURSIVE FileRows(_, _, _)
FileRows(files, tasks, i) ==
    IF i > Len(tasks) THEN <<>>
    ELSE LET filePath == tasks[i].filePath
             resolvedPath == IF filePath.abs THEN AbsLoc(filePath.name)
                             ELSE ProjectLoc(filePath.name)
         IN (IF filePath # NoPath /\ Stat(files, resolvedPath) # 0
             THEN <<Line("fileRow", "- ", "", <<>>, "", filePath)>> ELSE <<>>)
            \o FileRows(files, tasks, i + 1)

\* buildRebuiltOutput
BuildRebuiltOutput(files, feature, tasks, missingFiles) ==
    LET planSpec == feature.planSpec
        tasksTotal == IF planSpec.tasksTotal # -1 THEN planSpec.tasksTotal ELSE Len(tasks)
        tasksCompleted == IF planSpec.tasksCompleted # -1 THEN planSpec.tasksCompleted ELSE 0
        fileRows == FileRows(files, tasks, 1)
        taskLines == [i \in 1..Len(tasks) |-> RebuiltTaskLine(tasks[i])]
        missingRows == [i \in 1..Len(missingFiles) |->
                            Line("missingRow", "- ", "", <<>>, "", missingFiles[i])]
    IN <<TextLine("# Rebuilt Output"), TextLine("Feature:"), TextLine("Feature ID:"),
         TextLine("Rebuilt At:"), PhaseLine("Plan Summary"),
         Line("planStatus", "- ", "", <<>>,
              IF planSpec.status # "" THEN planSpec.status ELSE "unknown", NoPath),
         Line("progress", "- ", "", <<tasksCompleted, tasksTotal>>, "", NoPath),
         PhaseLine("Task Status")>>
       \o (IF taskLines # <<>> THEN taskLines ELSE <<TextLine("- No tasks found")>>)
       \o <<PhaseLine("Files Found")>>
       \o (IF fileRows # <<>> THEN fileRows ELSE <<TextLine("- No files found")>>)
       \o <<PhaseLine("Missing Files")>>
       \o (IF missingRows # <<>> THEN missingRows ELSE <<TextLine("- None")>>)

(***************************************************************************)
(* Dependency Restorer (dependency-restore.ts).  A dependency id is a      *)
(* sequence of characters, " " being white space.  A line of a plan text   *)
(* that matters here is one of                                             *)
(*   depsBracket  "Dependencies: [a, b]"   items: the parts between commas *)
(*   depsInline   "Dependencies: a, b"     items: the parts between commas *)
(*   depsHeader   "Dependencies:" alone on its line                        *)
(*   bullet       "- a"                    id: the text after the bullet   *)
(*   blank, hash  an empty line, a line that starts with #                 *)
(* and every other line neither holds the word nor is a bullet.            *)
(***************************************************************************)
MAX_BACKUPS == 3

\* a backup file that is missing, corrupt or without a dependencies array
NoBackup == [ok |-> FALSE, dependencies |-> <<>>]
Backup(dependencies) == [ok |-> TRUE, dependencies |-> dependencies]

RECURSIVE TrimStart(_)
TrimStart(s) == IF s # <<>> /\ Head(s) = " " THEN TrimStart(Tail(s)) ELSE s

RECURSIVE TrimEnd(_)
TrimEnd(s) ==
    IF s # <<>> /\ s[Len(s)] = " " THEN TrimEnd(SubSeq(s, 1, Len(s) - 1)) ELSE s

\* String.prototype.trim
Trim(s) == TrimEnd(TrimStart(s))

\* values.forEach((v) => set.add(v)) on a Set kept in insertion order
RECURSIVE AddAll(_, _)
AddAll(set, values) ==
    IF values = <<>> THEN set
    ELSE AddAll(IF \E i \in 1..Len(set) : set[i] = Head(values) THEN set
                ELSE Append(set, Head(values)),
                Tail(values))

\* array.filter(Boolean) on strings
NonEmpty(values) ==
    LET Truthy(v) == v # <<>>
    IN SelectSeq(values, Truthy)

\* normalizeDependencies
NormalizeDependencies(deps) ==
    AddAll(<<>>, NonEmpty([i \in 1..Len(deps) |-> Trim(deps[i])]))

\* readBackupDependencies: backupFiles[i] is what feature.json.bak<i> holds
RECURSIVE ReadBackupsFrom(_, _, _, _)
ReadBackupsFrom(backupFiles, i, maxBackups, dependencies) ==
    IF i > maxBackups THEN dependencies
    ELSE ReadBackupsFrom(backupFiles, i + 1, maxBackups,
                         IF backupFiles[i].ok
                         THEN AddAll(dependencies, backupFiles[i].dependencies)
                         ELSE dependencies)

ReadBackupDependencies(backupFiles) ==
    ReadBackupsFrom(backupFiles, 1, MAX_BACKUPS, <<>>)

\* addCandidates of extractDependenciesFromPlan
AddCandidates(dependencies, items) ==
    AddAll(dependencies, NonEmpty([i \in 1..Len(items) |-> Trim(items[i])]))

\* what /^[-*+]\s*([A-Za-z0-9:_-]+)/ captures of a bullet: the characters
\* up to the first one outside the class
RECURSIVE BulletCapture(_)
BulletCapture(id) ==
    IF id = <<>> \/ Head(id) = " " THEN <<>>
    ELSE <<Head(id)>> \o BulletCapture(Tail(id))

\* the inner loop of extractDependenciesFromPlan over the lines that follow a
\* header: bullets are collected up to a blank line, a # line or any line
\* that is no bullet
RECURSIVE BulletsFrom(_, _, _)
BulletsFrom(lines, j, dependencies) ==
    IF j > Len(lines) THEN dependencies
    ELSE IF lines[j].k = "bullet" /\ BulletCapture(lines[j].id) # <<>>
    THEN BulletsFrom(lines, j + 1, AddAll(dependencies, <<BulletCapture(lines[j].id)>>))
    ELSE dependencies

\* the outer loop of extractDependenciesFromPlan
RECURSIVE ExtractFrom(_, _, _)
ExtractFrom(lines, i, dependencies) ==
    IF i > Len(lines) THEN dependencies
    ELSE ExtractFrom(lines, i + 1,
            IF lines[i].k \in {"depsBracket", "depsInline"}
            THEN AddCandidates(dependencies, lines[i].items)
            ELSE IF lines[i].k = "depsHeader"
            THEN BulletsFrom(lines, i + 1, dependencies)
            ELSE dependencies)

\* extractDependenciesFromPlan
ExtractDependenciesFromPlan(content) == ExtractFrom(content, 1, <<>>)

\* getDependencyRestoreCandidates that keeps the record's own id
GetDependencyRestoreCandidatesWithSelf(feature, allFeatureIds, backupDependencies, planDependencies) ==
    LET declared == NonEmpty(feature.dependencies)
        currentDeps == {declared[i] : i \in 1..Len(declared)}
        candidates == NormalizeDependencies(backupDependencies \o planDependencies)
        IsMissing(dep) == dep \notin currentDeps /\ dep \in allFeatureIds
    IN [candidates |-> candidates, missing |-> SelectSeq(candidates, IsMissing)]

\* getDependencyRestoreCandidates that does not look at what the record
\* declares
GetDependencyRestoreCandidatesIgnoreCurrent(feature, allFeatureIds, backupDependencies, planDependencies) ==
    LET NotSelf(dep) == dep # feature.id
        candidates ==
            SelectSeq(NormalizeDependencies(backupDependencies \o planDependencies), NotSelf)
        IsKnown(dep) == dep \in allFeatureIds
    IN [candidates |-> candidates, missing |-> SelectSeq(candidates, IsKnown)]

\* getDependencyRestoreCandidates
GetDependencyRestoreCandidates(feature, allFeatureIds, backupDependencies, planDependencies) ==
    LET declared == NonEmpty(feature.dependencies)
        currentDeps == {declared[i] : i \in 1..Len(declared)}
        NotSelf(dep) == dep # feature.id
        candidates ==
            SelectSeq(NormalizeDependencies(backupDependencies \o planDependencies), NotSelf)
        IsMissing(dep) == dep \notin currentDeps /\ dep \in allFeatureIds
    IN [candidates |-> candidates, missing |-> SelectSeq(candidates, IsMissing)]

(***************************************************************************)
(* The features routes: list, reconcile-plan, rebuild-output,              *)
(* resume-pending, recovery-center, timeline.                              *)
(***************************************************************************)
FeatureIds == {F1, F2}
\* an id no record of the project has
F3 == <<"f", "3">>
RequestIds == FeatureIds \cup {F3}
\* the records of the project in the order getAll returns them
AllFeatureIds == <<F1, F2>>


\* the handlers that reconcile, repair the status and persist for every
\* record they look at, and that the UI polls
ReconcilingOps == {"list", "reconcile-plan", "recovery-center"}

\* what lastOp keeps of a request: the handler, the record id of the request
\* (<<>> when it has none), the answer, the records FeatureLoader.update was
\* called on, and whether the handler looked at a record that was settled
Op(name, fid, outcome, wrote, again) ==
    [name |-> name, fid |-> fid, outcome |-> outcome, wrote |-> wrote, again |-> again]

\* no recovery-center request was answered last
NoReport ==
    [given |-> FALSE, includeAll |-> FALSE,
     summary |-> [total |-> 0, totalItems |-> 0, incompletePlans |-> 0, missingFiles |-> 0,
                  missingOutputs |-> 0, missingDependencies |-> 0],
     items |-> <<>>, entries |-> <<>>, reconciled |-> <<>>]

\* no agent resume was started by the last request
NoResume ==
    [started |-> FALSE, fid |-> <<>>, feature |-> <<>>, output |-> NoOutput,
     reconciled |-> NullResult]

\* FeatureLoader.update: the stored record with the given fields replaced
UpdateFeature(stored, planSpec, status) ==
    [stored EXCEPT !.hasPlanSpec = TRUE, !.planSpec = planSpec, !.status = status]

\* What a handler does with one record once reconcile has returned: call is
\* the outcome of reconcileFeaturePlanSpec on the record object read from
\* disk, repair says whether the handler applies the status repair.
\*   resolved    the record object as reconcile left it
\*   reconciled  the result of reconcile
\*   feature     the record object the handler goes on with
\*   stored      the record on disk afterwards
\*   wrote       whether FeatureLoader.update was called
PersistReconciled(stored, call, repair) ==
    LET reconciled == call.result
        currentPlanSpec == call.feature.planSpec
        needsUpdate == HasPlanSpecChanges(currentPlanSpec, reconciled)
        shouldDowngradeStatus ==
            repair /\ ShouldDowngradeStatus(call.feature, currentPlanSpec, reconciled)
        updated == UpdateFeature(stored, UpdatedPlanSpec(currentPlanSpec, reconciled),
                                 IF shouldDowngradeStatus THEN "backlog" ELSE stored.status)
        persist == ~reconciled.isNull /\ (needsUpdate \/ shouldDowngradeStatus)
    IN [resolved |-> call.feature, reconciled |-> reconciled,
        feature |-> IF persist THEN updated ELSE call.feature,
        stored |-> IF persist THEN updated ELSE stored,
        wrote |-> persist,
        statusAdjusted |-> persist /\ shouldDowngradeStatus]

\* reconcile and persist one record leaving the status as it is
ReconcileStoredUnrepaired(fid) ==
    PersistReconciled(features[fid],
                      ReconcileFeaturePlanSpec(fs, outputs[fid], features[fid]), FALSE)
\* reconcile and persist one record, as list, reconcile-plan, rebuild-output,
\* resume-pending and recovery-center do
ReconcileStored(fid) ==
    PersistReconciled(features[fid],
                      ReconcileFeaturePlanSpec(fs, outputs[fid], features[fid]), TRUE)

\* reconcile and persist one record as timeline does: no status repair
ReconcileStoredTimeline(fid) ==
    PersistReconciled(features[fid],
                      ReconcileFeaturePlanSpec(fs, outputs[fid], features[fid]), FALSE)

\* bookkeeping for a handler of ReconcilingOps that looked at the records in
\* processed and wrote the records in wrote
Polled(name, fid, outcome, processed, wrote) ==
    /\ lastOp' = Op(name, fid, outcome, wrote, processed \cap settled # {})
    /\ settled' = settled \cup processed

\* bookkeeping for any other handler: what was settled stays settled only if
\* the handler changed nothing
Other(name, fid, outcome, wrote) ==
    /\ lastOp' = Op(name, fid, outcome, wrote, FALSE)
    /\ settled' = IF features' = features /\ outputs' = outputs THEN settled ELSE {}

\* the loop over all records of the project that list and recovery-center
\* share; done[f] is what the loop body did with record f
ForAllFeatures(name, done) ==
    /\ features' = [f \in FeatureIds |-> done[f].stored]
    /\ Polled(name, <<>>, "ok", FeatureIds, {f \in FeatureIds : done[f].wrote})

\* POST /list
List ==
    /\ ForAllFeatures("list", [f \in FeatureIds |-> ReconcileStored(f)])
    /\ report' = NoReport
    /\ resume' = NoResume
    /\ UNCHANGED <<fs, outputs, changes, reconcileVars, depVars, eventVars, writeVars, fanVars, partVars>>

\* the record object recovery-center goes on with once reconcile has
\* returned and the record was persisted: r is ReconcileStored of the record
UpdatedFeatureStale(r) == r.resolved
UpdatedFeature(r) == r.feature

\* the plan of an item: null when no task is counted
NoPlan == [tasksCompleted |-> -1, tasksTotal |-> -1, currentTaskId |-> NoId, status |-> ""]

\* a ?? b ?? 0 on counters
Coalesce(a, b) == IF a # -1 THEN a ELSE IF b # -1 THEN b ELSE 0

\* what the loop of recovery-center computes for one record; the records of
\* the routes carry no error text, declare no dependencies and have no backup
RecoveryEntry(r, hasAgentOutput, allFeatureIds) ==
    LET updatedFeature == UpdatedFeature(r)
        planSpec == updatedFeature.planSpec
        reconciled == r.reconciled
        tasksTotal == Coalesce(planSpec.tasksTotal,
                               IF reconciled.isNull THEN -1 ELSE reconciled.tasksTotal)
        tasksCompleted == Coalesce(planSpec.tasksCompleted,
                                   IF reconciled.isNull THEN -1 ELSE reconciled.tasksCompleted)
        missingFiles == IF reconciled.isNull THEN <<>> ELSE reconciled.missingFiles
        hasPlan == tasksTotal > 0
        incompletePlan == hasPlan /\ tasksCompleted < tasksTotal
        hasFailedStatus == updatedFeature.status \in {"failed", "error"}
        dependencyRestore ==
            GetDependencyRestoreCandidates(
                [id |-> updatedFeature.id, dependencies |-> <<>>], allFeatureIds,
                ReadBackupDependencies([i \in 1..MAX_BACKUPS |-> NoBackup]),
                ExtractDependenciesFromPlan(planSpec.content))
        dependencyRestoreCount == Len(dependencyRestore.missing)
        statusMismatch ==
            /\ planSpec.status = "approved"
            /\ incompletePlan
            /\ updatedFeature.status \in {"waiting_approval", "verified", "completed"}
    IN [featureId |-> updatedFeature.id,
        status |-> updatedFeature.status,
        plan |-> IF hasPlan
                 THEN [tasksCompleted |-> tasksCompleted, tasksTotal |-> tasksTotal,
                       currentTaskId |-> planSpec.currentTaskId, status |-> planSpec.status]
                 ELSE NoPlan,
        missingFiles |-> missingFiles,
        dependencyRestoreCount |-> dependencyRestoreCount,
        hasAgentOutput |-> hasAgentOutput,
        issues |-> (IF hasFailedStatus THEN <<"Execution error">> ELSE <<>>)
                   \o (IF incompletePlan THEN <<"Plan incomplete">> ELSE <<>>)
                   \o (IF missingFiles # <<>> THEN <<"Missing expected files">> ELSE <<>>)
                   \o (IF ~hasAgentOutput THEN <<"Agent output missing">> ELSE <<>>)
                   \o (IF dependencyRestoreCount > 0 THEN <<"Missing dependencies">> ELSE <<>>)
                   \o (IF statusMismatch THEN <<"Status out of sync with plan">> ELSE <<>>),
        canResume |-> incompletePlan,
        canRebuild |-> ~hasAgentOutput \/ missingFiles # <<>>]

\* the running sums of the summary
RECURSIVE Sum(_)
Sum(numbers) == IF numbers = <<>> THEN 0 ELSE Head(numbers) + Sum(Tail(numbers))

\* the answer of recovery-center: entries[f] is RecoveryEntry of record f;
\* a record without issue is skipped unless includeAll is set, before
\* anything is counted.  Beside summary and items the model keeps what the
\* loop computed for every record (entries) and what reconcile returned
\* (reconciled).
RecoveryReport(includeAll, entries) ==
    LET all == [i \in 1..Len(AllFeatureIds) |-> entries[AllFeatureIds[i]]]
        Pushed(e) == e.issues # <<>> \/ includeAll
        items == SelectSeq(all, Pushed)
        Over(Count(_)) == Sum([i \in 1..Len(items) |-> Count(items[i])])
        HasIssues(e) == IF e.issues # <<>> THEN 1 ELSE 0
        MissingFiles(e) == Len(e.missingFiles)
        Incomplete(e) == IF e.canResume THEN 1 ELSE 0
        MissingOutput(e) == IF ~e.hasAgentOutput THEN 1 ELSE 0
        MissingDependencies(e) == e.dependencyRestoreCount
    IN [given |-> TRUE,
        includeAll |-> includeAll,
        summary |-> [total |-> Over(HasIssues),
                     totalItems |-> Len(items),
                     incompletePlans |-> Over(Incomplete),
                     missingFiles |-> Over(MissingFiles),
                     missingOutputs |-> Over(MissingOutput),
                     missingDependencies |-> Over(MissingDependencies)],
        items |-> items,
        entries |-> entries,
        reconciled |-> <<>>]

\* POST /recovery-center
RecoveryCenter(includeAll) ==
    /\ ForAllFeatures("recovery-center", [f \in FeatureIds |-> ReconcileStored(f)])
    /\ report' = [RecoveryReport(includeAll,
                      [f \in FeatureIds |->
                         RecoveryEntry(ReconcileStored(f), outputs[f] # NoOutput, FeatureIds)])
                  EXCEPT !.reconciled = [f \in FeatureIds |-> ReconcileStored(f).reconciled]]
    /\ resume' = NoResume
    /\ UNCHANGED <<fs, outputs, changes, reconcileVars, depVars, eventVars, writeVars, fanVars, partVars>>

\* the answer to a per-record request that names no record of the project
\* (404): nothing is read further and nothing is written
NotFound(name, fid) ==
    /\ lastOp' = Op(name, fid, "not_found", {}, FALSE)
    /\ UNCHANGED <<features, outputs, settled>>

\* reconcile-plan once the record is loaded; r is ReconcileStored(fid)
ReconcilePlanFound(fid, rebuildOutput, r) ==
    /\ features' = [features EXCEPT ![fid] = r.stored]
    /\ outputs' =
         IF ~rebuildOutput THEN outputs
         ELSE [outputs EXCEPT ![fid] =
                 BuildRebuiltOutput(fs, r.feature,
                     IF r.reconciled.isNull THEN r.resolved.planSpec.tasks
                     ELSE r.reconciled.tasks,
                     r.reconciled.missingFiles)]
    /\ Polled("reconcile-plan", fid, "ok", {fid}, IF r.wrote THEN {fid} ELSE {})

\* POST /reconcile-plan
ReconcilePlan(fid, rebuildOutput) ==
    /\ IF fid \notin FeatureIds THEN NotFound("reconcile-plan", fid)
       ELSE ReconcilePlanFound(fid, rebuildOutput, ReconcileStored(fid))
    /\ report' = NoReport
    /\ resume' = NoResume
    /\ UNCHANGED <<fs, changes, reconcileVars, depVars, eventVars, writeVars, fanVars, partVars>>

\* rebuild-output once the record is loaded; r is ReconcileStored(fid)
RebuildOutputFound(fid, r) ==
    /\ features' = [features EXCEPT ![fid] = r.stored]
    /\ outputs' = [outputs EXCEPT ![fid] =
                     BuildRebuiltOutput(fs, r.feature, r.feature.planSpec.tasks,
                                        r.reconciled.missingFiles)]
    /\ Other("rebuild-output", fid, "ok", IF r.wrote THEN {fid} ELSE {})

\* POST /rebuild-output
RebuildOutput(fid) ==
    /\ IF fid \notin FeatureIds THEN NotFound("rebuild-output", fid)
       ELSE RebuildOutputFound(fid, ReconcileStored(fid))
    /\ report' = NoReport
    /\ resume' = NoResume
    /\ UNCHANGED <<fs, changes, reconcileVars, depVars, eventVars, writeVars, fanVars, partVars>>

\* autoModeService.resumeFeature called before agent-output.md is rebuilt
ResumeFeatureBeforeSave(fid, stored, output, rebuilt, reconciled) ==
    [started |-> TRUE, fid |-> fid, feature |-> stored, output |-> output,
     reconciled |-> reconciled]
\* the call of autoModeService.resumeFeature: what is on disk for the record
\* when the resume is started, stored being the record, output the
\* agent-output.md the request found and rebuilt the one it saved
ResumeFeature(fid, stored, output, rebuilt, reconciled) ==
    [started |-> TRUE, fid |-> fid, feature |-> stored, output |-> rebuilt,
     reconciled |-> reconciled]

\* resume-pending once the record is loaded; r is ReconcileStored(fid)
ResumePendingFound(fid, r) ==
    IF r.reconciled.isNull
    THEN /\ lastOp' = Op("resume-pending", fid, "declined", {}, FALSE)
         /\ resume' = NoResume
         /\ UNCHANGED <<features, outputs, settled>>
    ELSE /\ features' = [features EXCEPT ![fid] = r.stored]
         /\ IF r.reconciled.tasksTotal = 0
               \/ r.reconciled.tasksCompleted >= r.reconciled.tasksTotal
            THEN /\ UNCHANGED outputs
                 /\ resume' = NoResume
                 /\ Other("resume-pending", fid, "declined",
                          IF r.wrote THEN {fid} ELSE {})
            ELSE /\ outputs' = [outputs EXCEPT ![fid] =
                                  BuildRebuiltOutput(fs, r.feature, r.reconciled.tasks,
                                                     r.reconciled.missingFiles)]
                 /\ resume' = ResumeFeature(fid, r.stored, outputs[fid],
                                   BuildRebuiltOutput(fs, r.feature, r.reconciled.tasks,
                                                      r.reconciled.missingFiles),
                                   r.reconciled)
                 /\ Other("resume-pending", fid, "resumed",
                          IF r.wrote THEN {fid} ELSE {})

\* POST /resume-pending; autoModeService says whether the service was given
\* to the handler
ResumePending(fid, autoModeService) ==
    /\ IF ~autoModeService
       THEN /\ lastOp' = Op("resume-pending", fid, "error", {}, FALSE)
            /\ resume' = NoResume
            /\ UNCHANGED <<features, outputs, settled>>
       ELSE IF fid \notin FeatureIds
       THEN NotFound("resume-pending", fid) /\ resume' = NoResume
       ELSE ResumePendingFound(fid, ReconcileStored(fid))
    /\ report' = NoReport
    /\ UNCHANGED <<fs, changes, reconcileVars, depVars, eventVars, writeVars, fanVars, partVars>>

\* timeline once the record is loaded; r is ReconcileStoredTimeline(fid)
TimelineFound(fid, r) ==
    /\ features' = [features EXCEPT ![fid] = r.stored]
    /\ UNCHANGED outputs
    /\ Other("timeline", fid, "ok", IF r.wrote THEN {fid} ELSE {})

\* POST /timeline
Timeline(fid) ==
    /\ IF fid \notin FeatureIds THEN NotFound("timeline", fid)
       ELSE TimelineFound(fid, ReconcileStoredTimeline(fid))
    /\ report' = NoReport
    /\ resume' = NoResume
    /\ UNCHANGED <<fs, changes, reconcileVars, depVars, eventVars, writeVars, fanVars, partVars>>

(***************************************************************************)
(* What happens around the routes: files come and go in the project, and   *)
(* the execution pipeline or the board moves a record to another status.   *)
(***************************************************************************)
RouteLocations ==
    {ProjectLoc("a.ts"), WorktreeLoc(SanitizeWorktreeName(F1), "a.ts"), AbsLoc("b.ts")}

Changed(name) ==
    /\ changes < MaxChanges
    /\ changes' = changes + 1
    /\ lastOp' = Op(name, <<>>, "ok", {}, FALSE)
    /\ settled' = {}
    /\ report' = NoReport
    /\ resume' = NoResume

WriteFile(loc) ==
    /\ fs[loc] = 0
    /\ fs' = [fs EXCEPT ![loc] = MtimeOf(loc)]
    /\ Changed("write-file")
    /\ UNCHANGED <<features, outputs, reconcileVars, depVars, eventVars, writeVars, fanVars, partVars>>

DeleteFile(loc) ==
    /\ fs[loc] # 0
    /\ fs' = [fs EXCEPT ![loc] = 0]
    /\ Changed("delete-file")
    /\ UNCHANGED <<features, outputs, reconcileVars, depVars, eventVars, writeVars, fanVars, partVars>>

SetStatus(fid, status) ==
    /\ features[fid].status # status
    /\ features' = [features EXCEPT ![fid].status = status]
    /\ Changed("set-status")
    /\ UNCHANGED <<fs, outputs, reconcileVars, depVars, eventVars, writeVars, fanVars, partVars>>

\* the records the project starts with
T001 == PadStart3(<<1>>)
T002 == PadStart3(<<2>>)
RouteTaskLists ==
    {<<Task(T001, "d1", RelA, "", "completed", 0, CompletedTask),
       Task(T002, "d2", AbsB, "", "pending", 0, 0)>>,
     <<Task(T001, "d1", RelA, "", "pending", 0, 0),
       Task(T002, "d2", NoPath, "", "completed", 0, 0)>>,
     <<Task(T001, "d1", RelA, "", "failed", 0, 0),
       Task(T002, "d2", NoPath, "", "in_progress", 0, 0)>>}

\* F1 has a plan: an attached task list, or a plan text only, or no plan at
\* all; an agent-output.md was captured only for the record without a plan
PlannedF1 ==
    {Feature(F1, "verified", NoBranch, StartedFeature, TRUE,
             PlanSpec("approved", <<>>, ts, -1, -1, NoId)) : ts \in RouteTaskLists}
    \cup {Feature(F1, "verified", NoBranch, StartedFeature, TRUE,
                  PlanSpec("approved", ListContent, <<>>, -1, -1, NoId))}
UnplannedF1 ==
    Feature(F1, "waiting_approval", NoBranch, StartedFeature, TRUE,
            PlanSpec("generated", <<>>, <<>>, -1, -1, NoId))
\* a record written before task lists were attached: planSpec carries the
\* counters (1 of 2 done) and a plan text without task line
LegacyF1 ==
    Feature(F1, "verified", NoBranch, StartedFeature, TRUE,
            PlanSpec("approved", ProseContent, <<>>, 1, 2, T002))
InitF1 ==
    {<<f, NoOutput>> : f \in PlannedF1 \cup {UnplannedF1, LegacyF1}}
    \cup {<<UnplannedF1, ListContent \o <<Marker>> >>}

\* F2 is a record without planSpec and without agent-output.md
InitF2 == Feature(F2, "completed", BranchX, 0, FALSE, EmptyPlanSpec)

Init ==
    /\ \E a \in InitF1 :
          /\ features = [f \in FeatureIds |-> IF f = F1 THEN a[1] ELSE InitF2]
          /\ outputs = [f \in FeatureIds |-> IF f = F1 THEN a[2] ELSE NoOutput]
    /\ fs \in {[loc \in RouteLocations |-> IF loc \in present THEN MtimeOf(loc) ELSE 0] :
                  present \in {{}, {ProjectLoc("a.ts")},
                                {WorktreeLoc(SanitizeWorktreeName(F1), "a.ts")}}}
    /\ lastOp = Op("start", <<>>, "ok", {}, FALSE)
    /\ settled = {}
    /\ changes = 0
    /\ rfeature = Feature(F1, "backlog", NoBranch, 0, FALSE, EmptyPlanSpec)
    /\ rfs = <<>>
    /\ routput = NoOutput
    /\ rcall = "off"
    /\ rafter = rfeature
    /\ r1 = NullResult
    /\ r2 = NullResult
    /\ report = NoReport
    /\ resume = NoResume
    /\ DepIdle
    /\ EventIdle
    /\ WriteIdle
    /\ FanIdle /\ PartsIdle

Next ==
    \/ List
    \/ \E includeAll \in BOOLEAN : RecoveryCenter(includeAll)
    \/ \E fid \in RequestIds, rebuildOutput \in BOOLEAN : ReconcilePlan(fid, rebuildOutput)
    \/ \E fid \in RequestIds : RebuildOutput(fid)
    \/ \E fid \in RequestIds, autoModeService \in BOOLEAN : ResumePending(fid, autoModeService)
    \/ \E fid \in RequestIds : Timeline(fid)
    \/ \E loc \in RouteLocations : WriteFile(loc) \/ DeleteFile(loc)
    \/ \E fid \in FeatureIds : SetStatus(fid, "verified")

Spec == Init /\ [][Next]_vars

\* the variables of the routes and of reconcile in isolation while another
\* part of the program is looked at
RoutesIdle ==
    /\ features = <<>>
    /\ fs = <<>>
    /\ outputs = <<>>
    /\ lastOp = <<>>
    /\ settled = {}
    /\ changes = 0
    /\ report = <<>>
    /\ resume = <<>>

ReconcileIdle ==
    /\ rfeature = <<>>
    /\ rfs = <<>>
    /\ routput = NoOutput
    /\ rcall = "off"
    /\ rafter = <<>>
    /\ r1 = NullResult
    /\ r2 = NullResult

(***************************************************************************)
(* POST /restore-dependencies (restore-dependencies.ts).                   *)
(***************************************************************************)
\* a record as the dependency restorer sees it
DepFeature(id, dependencies, content) ==
    [id |-> id, dependencies |-> dependencies, content |-> content]

\* the body of a request: featureId and featureIds are <<>> when not given
RestoreRequest(featureId, featureIds, dryRun) ==
    [featureId |-> featureId, featureIds |-> featureIds, dryRun |-> dryRun]

TargetIds(request) ==
    IF request.featureId # <<>> THEN <<request.featureId>>
    ELSE IF request.featureIds # <<>> THEN request.featureIds
    ELSE AllFeatureIds

\* FeatureLoader.update of the dependencies of one record; rotate says
\* whether the write keeps the previous feature.json as feature.json.bak1
UpdateDependencies(stored, backups, id, nextDependencies, rotate) ==
    [stored |-> [stored EXCEPT ![id].dependencies = nextDependencies],
     backups |-> IF ~rotate THEN backups
                 ELSE [backups EXCEPT ![id] =
                         [i \in 1..MAX_BACKUPS |->
                            IF i = 1 THEN Backup(stored[id].dependencies)
                            ELSE backups[id][i - 1]]]]

\* one entry of results
RestoreResult(featureId, restoredDependencies, candidates) ==
    [featureId |-> featureId, restoredDependencies |-> restoredDependencies,
     candidates |-> candidates]

\* the dependencies a live request writes: missing replaces what the record
\* declares
NextDependenciesReplace(feature, missing) == missing
\* the dependencies a live request writes: what the record declares, then
\* missing, each id once
NextDependencies(feature, missing) == AddAll(<<>>, feature.dependencies \o missing)

\* a request that writes whenever something is missing, dry run or not
ShouldUpdateAlways(dryRun, missing) == missing # <<>>
\* whether the handler writes the record
ShouldUpdate(dryRun, missing) == ~dryRun /\ missing # <<>>

\* what getDependencyRestoreCandidates was given for one entry of results;
\* the answer does not carry it, the model keeps it beside the answer
RestoreInputs(dependencies, backupDependencies, planDependencies) ==
    [dependencies |-> dependencies, backupDependencies |-> backupDependencies,
     planDependencies |-> planDependencies]

\* the loop of the handler over targetIds: featureMap is the snapshot taken
\* by getAll before the loop, acc the records and backup files on disk and
\* the answer built so far
RECURSIVE RestoreLoop(_, _, _, _, _, _)
RestoreLoop(targetIds, featureMap, allFeatureIds, dryRun, rotate, acc) ==
    IF targetIds = <<>> THEN acc
    ELSE LET id == Head(targetIds)
         IN IF id \notin allFeatureIds
            THEN RestoreLoop(Tail(targetIds), featureMap, allFeatureIds, dryRun, rotate,
                    [acc EXCEPT !.results = Append(@, RestoreResult(id, <<>>, <<>>)),
                                !.inputs = Append(@, RestoreInputs(<<>>, <<>>, <<>>))])
            ELSE LET feature == featureMap[id]
                     backupDependencies == ReadBackupDependencies(acc.backups[id])
                     planDependencies == ExtractDependenciesFromPlan(feature.content)
                     found == GetDependencyRestoreCandidates(feature, allFeatureIds,
                                  backupDependencies, planDependencies)
                     nextDependencies == NextDependencies(feature, found.missing)
                     written == UpdateDependencies(acc.stored, acc.backups, id,
                                                   nextDependencies, rotate)
                     update == ShouldUpdate(dryRun, found.missing)
                 IN RestoreLoop(Tail(targetIds), featureMap, allFeatureIds, dryRun, rotate,
                       [stored |-> IF update THEN written.stored ELSE acc.stored,
                        backups |-> IF update THEN written.backups ELSE acc.backups,
                        results |-> Append(acc.results,
                                      RestoreResult(id, found.missing, found.candidates)),
                        inputs |-> Append(acc.inputs,
                                      RestoreInputs(feature.dependencies, backupDependencies,
                                                    planDependencies)),
                        restoredCount |-> acc.restoredCount
                                          + (IF update THEN Len(found.missing) ELSE 0),
                        wrote |-> IF update THEN acc.wrote \cup {id} ELSE acc.wrote])

\* createRestoreDependenciesHandler: what the request leaves on disk and
\* what it answers
RestoreHandler(stored, backups, request, rotate) ==
    LET done == RestoreLoop(TargetIds(request), stored, DOMAIN stored, request.dryRun,
                            rotate,
                            [stored |-> stored, backups |-> backups, results |-> <<>>,
                             inputs |-> <<>>, restoredCount |-> 0, wrote |-> {}])
    IN [stored |-> done.stored,
        backups |-> done.backups,
        resp |-> [name |-> "restore-dependencies", request |-> request,
                  outcome |-> "ok",
                  summary |-> [processed |-> Len(TargetIds(request)),
                               restoredCount |-> done.restoredCount],
                  results |-> done.results,
                  inputs |-> done.inputs,
                  wrote |-> done.wrote]]

\* POST /restore-dependencies; done is RestoreHandler of the request
RestoreDependenciesDone(done) ==
    /\ dprev' = dfeatures
    /\ dfeatures' = done.stored
    /\ dbackups' = done.backups
    /\ dresp' = done.resp

RestoreDependencies(request, rotate) ==
    /\ RestoreDependenciesDone(RestoreHandler(dfeatures, dbackups, request, rotate))
    /\ UNCHANGED <<routeVars, reconcileVars, eventVars, writeVars, fanVars, partVars>>

\* a dependency id as it may be written in a record, a backup or a plan
\* text: the id of a record, of no record, with white space around it
PadF2 == <<" ">> \o F2
Blank == <<" ">>

DepLine(k, items, id) == [k |-> k, items |-> items, id |-> id]

\* the plan texts of F1
DepContents ==
    {<<>>,
     <<DepLine("depsBracket", <<F2, Blank, F3>>, <<>>)>>,
     <<DepLine("depsHeader", <<>>, <<>>), DepLine("bullet", <<>>, F2 \o Blank \o F3),
       DepLine("bullet", <<>>, F1), DepLine("blank", <<>>, <<>>),
       DepLine("bullet", <<>>, F3)>>}

NoBackups == [i \in 1..MAX_BACKUPS |-> NoBackup]

NoResponse ==
    [name |-> "start", request |-> RestoreRequest(<<>>, <<>>, TRUE), outcome |-> "ok",
     summary |-> [processed |-> 0, restoredCount |-> 0], results |-> <<>>,
     inputs |-> <<>>, wrote |-> {}]

DepRequests ==
    {RestoreRequest(fid, <<>>, dryRun) : fid \in RequestIds, dryRun \in BOOLEAN}
    \cup {RestoreRequest(<<>>, ids, dryRun) :
            ids \in {<<>>, <<F1, F1>>, <<F3, F2>>}, dryRun \in BOOLEAN}

DepInit ==
    /\ \E d1 \in {<<>>, <<F2>>, <<PadF2>>, <<F3, <<>> >>},
          d2 \in {<<>>, <<F1>>},
          c1 \in DepContents,
          c2 \in {<<>>, <<DepLine("depsInline", <<F1, PadF2, F1>>, <<>>)>>} :
          dfeatures = [f \in FeatureIds |->
                          IF f = F1 THEN DepFeature(F1, d1, c1) ELSE DepFeature(F2, d2, c2)]
    /\ \E b \in {<<NoBackup, NoBackup>>, <<Backup(<<F2, F3>>), NoBackup>>,
                  <<Backup(<<PadF2, F1>>), Backup(<<F2>>)>>} :
          dbackups = [f \in FeatureIds |->
                        IF f = F1
                        THEN [i \in 1..MAX_BACKUPS |-> IF i <= Len(b) THEN b[i] ELSE NoBackup]
                        ELSE NoBackups]
    /\ dprev = dfeatures
    /\ dresp = NoResponse

DepNext == \E request \in DepRequests, rotate \in BOOLEAN : RestoreDependencies(request, rotate)

DepSpecInit == DepInit /\ RoutesIdle /\ ReconcileIdle /\ EventIdle /\ WriteIdle /\ FanIdle /\ PartsIdle

SpecDeps == DepSpecInit /\ [][DepNext]_vars


(***************************************************************************)
(* Event History Store (event-history-service.ts).  An event is known by   *)
(* its id, a number: the n-th event stored by the service has id n, which  *)
(* stands for `evt-${Date.now()}-${randomUUID().slice(0, 8)}`.  A summary  *)
(* is the id of its event.  An index object is known by the list of        *)
(* summaries it holds (its events array).  The service holds index objects *)
(* by reference: the cache entry of a project refers either to the object  *)
(* DEFAULT_EVENT_HISTORY_INDEX, which readJsonFile hands out as it is when *)
(* the index file cannot be read, or to an object of its own that          *)
(* JSON.parse made.                                                        *)
(***************************************************************************)
\* MAX_EVENTS_IN_INDEX as EVENT_HISTORY_MAX_EVENTS sets it for the model
MAX_EVENTS_IN_INDEX == 2

Projects == {"A", "B"}

\* the events array of DEFAULT_EVENT_HISTORY_INDEX of @automaker/types when
\* the module is loaded
DEFAULT_EVENT_HISTORY_INDEX == <<>>

\* index.json of a project that has none
NoIndexFile == <<-1>>

\* readJsonFile(indexPath, DEFAULT_EVENT_HISTORY_INDEX): the reference it
\* returns and the summaries the object holds
ReadJsonFile(project) ==
    IF eindex[project] = NoIndexFile
    THEN [ref |-> "default", events |-> edefault]
    ELSE [ref |-> "own", events |-> eindex[project]]

\* getIndex: the cached object while the cache entry is there, else the
\* object readJsonFile returns, which is cached
GetIndex(project) ==
    IF ecache[project] = "default" THEN [ref |-> "default", events |-> edefault]
    ELSE IF ecache[project] = "own" THEN [ref |-> "own", events |-> eown[project]]
    ELSE ReadJsonFile(project)

\* setCacheEntry(project, index) of an object that was not changed
Cached(project, index) ==
    /\ ecache' = [ecache EXCEPT ![project] = index.ref]
    /\ eown' = [eown EXCEPT ![project] = IF index.ref = "own" THEN index.events ELSE <<>>]

\* index.events.unshift(summary)
Unshift(events, summary) == <<summary>> \o events

\* index.events.splice(MAX_EVENTS_IN_INDEX): what it removes; what it leaves
\* in the array is Kept
Splice(events) ==
    IF Len(events) > MAX_EVENTS_IN_INDEX
    THEN SubSeq(events, MAX_EVENTS_IN_INDEX + 1, Len(events)) ELSE <<>>

Kept(events) ==
    IF Len(events) > MAX_EVENTS_IN_INDEX THEN SubSeq(events, 1, MAX_EVENTS_IN_INDEX)
    ELSE events

\* a write that caches a copy of the object made before the change
WriteIndexStaleCache(project, index, events, files) ==
    /\ edefault' = IF index.ref = "default" THEN events ELSE edefault
    /\ eown' = [eown EXCEPT ![project] = IF index.ref = "own" THEN index.events ELSE <<>>]
    /\ ecache' = [ecache EXCEPT ![project] = index.ref]
    /\ eindex' = [eindex EXCEPT ![project] = events]
    /\ efiles' = [efiles EXCEPT ![project] = files]

\* the objects and the files after an index object was changed in place,
\* written to index.json of the project with atomicWriteJson and cached:
\* index is what getIndex returned, events the summaries the object holds
\* now, files the event files of the project now
WriteIndex(project, index, events, files) ==
    /\ edefault' = IF index.ref = "default" THEN events ELSE edefault
    /\ eown' = [eown EXCEPT ![project] = IF index.ref = "own" THEN events ELSE <<>>]
    /\ ecache' = [ecache EXCEPT ![project] = index.ref]
    /\ eindex' = [eindex EXCEPT ![project] = events]
    /\ efiles' = [efiles EXCEPT ![project] = files]

\* addToIndex; files are the event files of the project when it is called
AddToIndex(project, summary, files) ==
    LET index == GetIndex(project)
        events == Unshift(index.events, summary)
        removed == Splice(events)
    IN WriteIndex(project, index, Kept(events),
                  files \ {removed[i] : i \in 1..Len(removed)})

\* what the model remembers of the calls made so far: the projects they
\* were made on, and whether all of them were stores and lists
Called(name, project) ==
    ecalls' = [projects |-> ecalls.projects \cup {project},
               onlyStores |-> ecalls.onlyStores /\ name \in {"store", "list"}]

\* storeEvent: the event file is written, then the index
StoreEvent(project) ==
    /\ enext <= MaxStores
    /\ enext' = enext + 1
    /\ AddToIndex(project, enext, efiles[project] \cup {enext})
    /\ estored' = [estored EXCEPT ![project] = Append(@, enext)]
    /\ Called("store", project)
    /\ eop' = [name |-> "store", project |-> project, returned |-> enext]
    /\ UNCHANGED <<routeVars, reconcileVars, depVars, writeVars, fanVars, partVars>>

\* the objects and the files after an index object was changed in place and
\* atomicWriteJson of index.json threw (the write or the rename failed): the
\* object getIndex returned is cached and holds the change, index.json is
\* as it was
WriteIndexFails(project, index, events, files) ==
    /\ edefault' = IF index.ref = "default" THEN events ELSE edefault
    /\ eown' = [eown EXCEPT ![project] = IF index.ref = "own" THEN events ELSE <<>>]
    /\ ecache' = [ecache EXCEPT ![project] = index.ref]
    /\ efiles' = [efiles EXCEPT ![project] = files]
    /\ UNCHANGED eindex

\* storeEvent when the write of index.json fails in addToIndex: the event
\* file is written, the summary is in the index object, the pruned event
\* files are removed, and the error goes to the caller
StoreEventFails(project) ==
    /\ enext <= MaxStores
    /\ enext' = enext + 1
    /\ LET index == GetIndex(project)
           events == Unshift(index.events, enext)
           removed == Splice(events)
       IN WriteIndexFails(project, index, Kept(events),
                          (efiles[project] \cup {enext})
                              \ {removed[i] : i \in 1..Len(removed)})
    /\ Called("storeFailed", project)
    /\ eop' = [name |-> "storeFailed", project |-> project, returned |-> enext]
    /\ UNCHANGED estored
    /\ UNCHANGED <<routeVars, reconcileVars, depVars, writeVars, fanVars, partVars>>

\* deleteEvent of an event the index lists when the write of index.json
\* fails: the index object has lost the summary, the event file stays, and
\* the error goes to the caller
DeleteEventFails(project, eventId) ==
    /\ \E i \in 1..Len(GetIndex(project).events) : GetIndex(project).events[i] = eventId
    /\ LET NotIt(e) == e # eventId
       IN WriteIndexFails(project, GetIndex(project),
                          SelectSeq(GetIndex(project).events, NotIt), efiles[project])
    /\ Called("deleteFailed", project)
    /\ eop' = [name |-> "deleteFailed", project |-> project, returned |-> eventId]
    /\ UNCHANGED <<enext, estored>>
    /\ UNCHANGED <<routeVars, reconcileVars, depVars, writeVars, fanVars, partVars>>

\* getEvents without filter
GetEvents(project) ==
    /\ Cached(project, GetIndex(project))
    /\ Called("list", project)
    /\ eop' = [name |-> "list", project |-> project, returned |-> 0]
    /\ UNCHANGED <<eindex, efiles, edefault, enext, estored>>
    /\ UNCHANGED <<routeVars, reconcileVars, depVars, writeVars, fanVars, partVars>>

\* deleteEvent of an event the index lists
DeleteEventFound(project, eventId, index) ==
    LET NotIt(e) == e # eventId
    IN WriteIndex(project, index, SelectSeq(index.events, NotIt),
                  efiles[project] \ {eventId})

\* deleteEvent
DeleteEvent(project, eventId) ==
    /\ IF \E i \in 1..Len(GetIndex(project).events) : GetIndex(project).events[i] = eventId
       THEN /\ DeleteEventFound(project, eventId, GetIndex(project))
            /\ eop' = [name |-> "delete", project |-> project, returned |-> TRUE]
       ELSE /\ Cached(project, GetIndex(project))
            /\ eop' = [name |-> "delete", project |-> project, returned |-> FALSE]
            /\ UNCHANGED <<eindex, efiles, edefault>>
    /\ Called("delete", project)
    /\ UNCHANGED <<enext, estored>>
    /\ UNCHANGED <<routeVars, reconcileVars, depVars, writeVars, fanVars, partVars>>

\* clearEvents: the files of the summaries are removed, then the object
\* DEFAULT_EVENT_HISTORY_INDEX is written to index.json and cached
ClearEvents(project) ==
    /\ efiles' = [efiles EXCEPT ![project] =
                     @ \ {GetIndex(project).events[i] :
                            i \in 1..Len(GetIndex(project).events)}]
    /\ eindex' = [eindex EXCEPT ![project] = edefault]
    /\ ecache' = [ecache EXCEPT ![project] = "default"]
    /\ Called("clear", project)
    /\ eop' = [name |-> "clear", project |-> project,
               returned |-> Len(GetIndex(project).events)]
    /\ eown' = [eown EXCEPT ![project] = <<>>]
    /\ UNCHANGED <<edefault, enext, estored>>
    /\ UNCHANGED <<routeVars, reconcileVars, depVars, writeVars, fanVars, partVars>>

\* time passes: the cache entry of the project is older than the TTL, and
\* getCacheEntry will drop it
CacheExpires(project) ==
    /\ ecache[project] # "none"
    /\ ecache' = [ecache EXCEPT ![project] = "none"]
    /\ eown' = [eown EXCEPT ![project] = <<>>]
    /\ UNCHANGED <<eindex, efiles, edefault, enext, estored, ecalls, eop>>
    /\ UNCHANGED <<routeVars, reconcileVars, depVars, writeVars, fanVars, partVars>>

EventInit ==
    /\ eindex = [p \in Projects |-> NoIndexFile]
    /\ efiles = [p \in Projects |-> {}]
    /\ ecache = [p \in Projects |-> "none"]
    /\ eown = [p \in Projects |-> <<>>]
    /\ edefault = DEFAULT_EVENT_HISTORY_INDEX
    /\ enext = 1
    /\ estored = [p \in Projects |-> <<>>]
    /\ ecalls = [projects |-> {}, onlyStores |-> TRUE]
    /\ eop = [name |-> "start", project |-> "", returned |-> 0]

EventNext ==
    \/ \E project \in Projects : StoreEvent(project)
    \/ \E project \in Projects : GetEvents(project)
    \/ \E project \in Projects, eventId \in 1..MaxStores : DeleteEvent(project, eventId)
    \/ \E project \in Projects : ClearEvents(project)
    \/ \E project \in Projects : CacheExpires(project)

EventSpecInit == EventInit /\ RoutesIdle /\ ReconcileIdle /\ DepIdle /\ WriteIdle /\ FanIdle /\ PartsIdle

SpecEvents == EventSpecInit /\ [][EventNext]_vars

\* the event store of one project when the write of index.json can fail
FailNext ==
    \/ StoreEvent("A")
    \/ GetEvents("A")
    \/ \E eventId \in 1..MaxStores : DeleteEvent("A", eventId)
    \/ ClearEvents("A")
    \/ CacheExpires("A")
    \/ StoreEventFails("A")
    \/ \E eventId \in 1..MaxStores : DeleteEventFails("A", eventId)

SpecEventFailures == EventSpecInit /\ [][FailNext]_vars

(***************************************************************************)
(* Index writes (atomicWriteJson, event-history-service.ts).  The calls    *)
(* that write index.json of one project are followed step by step: each    *)
(* await of atomicWriteJson is a point where another call, or a crash of   *)
(* the process, can come in.  A file is a content and whether the content  *)
(* is whole: a file that writeFile has opened and not finished is partial. *)
(* The directory maps a path to its file, so a rename carries a file that  *)
(* is still being written to its new path.                                 *)
(***************************************************************************)
MaxWrites == 3
MaxClock == 1

Writers == {1, 2}

\* getEventHistoryIndexPath(projectPath)
IndexPath == <<"index.json">>

\* tempPath of atomicWriteJson
TempPathInPlace(filePath, now) == filePath
TempPath(filePath, now) == filePath \o <<"tmp", now>>

WritePaths == {IndexPath} \cup {TempPath(IndexPath, now) : now \in 0..MaxClock}

NoJob == [op |-> "", tempPath |-> <<>>, content |-> <<>>, fd |-> 0,
          shared |-> FALSE, prior |-> <<>>]

\* index.json as a reader finds it now
IndexFile == wfiles[wdir[IndexPath]]

\* the summaries the index object holds when the call serializes it
WriteContent(op, eventId) ==
    IF op = "store" THEN Kept(Unshift(wmem, eventId))
    ELSE IF op = "delete" THEN Tail(wmem)
    ELSE DEFAULT_EVENT_HISTORY_INDEX

\* storeEvent, deleteEvent or clearEvents up to JSON.stringify in
\* atomicWriteJson: store and delete have changed the cached index object,
\* clear hands DEFAULT_EVENT_HISTORY_INDEX over
BeginWrite(w, op) ==
    /\ ~wcrashed
    /\ wpc[w] = "idle"
    /\ wseen.begun < MaxWrites
    /\ op = "delete" => wmem # <<>>
    /\ wpc' = [wpc EXCEPT ![w] = "serialized"]
    /\ wjob' = [wjob EXCEPT ![w] =
                   [op |-> op,
                    tempPath |-> TempPath(IndexPath, wclock),
                    content |-> WriteContent(op, wseen.begun + 1),
                    fd |-> 0,
                    shared |-> FALSE,
                    prior |-> IndexFile.content]]
    /\ wmem' = IF op = "clear" THEN wmem ELSE WriteContent(op, wseen.begun + 1)
    /\ wseen' = [wseen EXCEPT
                   !.begun = @ + 1,
                   !.written = @ \cup {WriteContent(op, wseen.begun + 1)},
                   !.concurrent = @ \/ \E v \in Writers \ {w} : wpc[v] # "idle"]
    /\ UNCHANGED <<wclock, wdir, wfiles, wcrashed>>
    /\ UNCHANGED <<routeVars, reconcileVars, depVars, eventVars, fanVars, partVars>>

\* writeFile(tempPath, content) opens the path for writing: a new empty file,
\* or the file that is there, cut to nothing.  A call that is still writing
\* that file now shares it.
OpenTemp(w) ==
    /\ ~wcrashed
    /\ wpc[w] = "serialized"
    /\ LET path == wjob[w].tempPath
           there == wdir[path] # 0
           fd == IF there THEN wdir[path] ELSE Len(wfiles) + 1
           partial == [content |-> wjob[w].content, whole |-> FALSE]
           Sharing(v) == v # w /\ wpc[v] = "writing" /\ wjob[v].fd = fd
       IN /\ wfiles' = IF there THEN [wfiles EXCEPT ![fd] = partial]
                       ELSE Append(wfiles, partial)
          /\ wdir' = [wdir EXCEPT ![path] = fd]
          /\ wjob' = [v \in Writers |->
                        IF v = w
                        THEN [wjob[w] EXCEPT !.fd = fd,
                                             !.shared = \E u \in Writers : Sharing(u)]
                        ELSE IF Sharing(v) THEN [wjob[v] EXCEPT !.shared = TRUE]
                        ELSE wjob[v]]
    /\ wpc' = [wpc EXCEPT ![w] = "writing"]
    /\ UNCHANGED <<wclock, wmem, wcrashed, wseen>>
    /\ UNCHANGED <<routeVars, reconcileVars, depVars, eventVars, fanVars, partVars>>

\* writeFile has written the last byte.  Two calls that wrote the same file
\* at the same time leave the bytes of the one or a mix of both.
FinishWrite(w) ==
    /\ ~wcrashed
    /\ wpc[w] = "writing"
    /\ \E whole \in (IF wjob[w].shared THEN BOOLEAN ELSE {TRUE}) :
          wfiles' = [wfiles EXCEPT ![wjob[w].fd] =
                        [content |-> wjob[w].content, whole |-> whole]]
    /\ wpc' = [wpc EXCEPT ![w] = "written"]
    /\ UNCHANGED <<wclock, wdir, wmem, wjob, wcrashed, wseen>>
    /\ UNCHANGED <<routeVars, reconcileVars, depVars, eventVars, fanVars, partVars>>

\* rename(tempPath, filePath), and the return to the caller, which caches
\* the index it wrote; when the temp path is gone the rename throws, the
\* unlink in the catch finds nothing and the error goes to the caller
Rename(w) ==
    /\ ~wcrashed
    /\ wpc[w] = "written"
    /\ LET path == wjob[w].tempPath
       IN IF wdir[path] # 0
          THEN /\ wdir' = [p \in WritePaths |->
                             IF p = IndexPath THEN wdir[path]
                             ELSE IF p = path THEN 0 ELSE wdir[p]]
               /\ wmem' = IF wjob[w].op = "clear" THEN wjob[w].content ELSE wmem
               /\ wseen' = wseen
          ELSE /\ wseen' = [wseen EXCEPT !.thrown = @ + 1]
               /\ UNCHANGED <<wdir, wmem>>
    /\ wpc' = [wpc EXCEPT ![w] = "idle"]
    /\ wjob' = [wjob EXCEPT ![w] = NoJob]
    /\ UNCHANGED <<wclock, wfiles, wcrashed>>
    /\ UNCHANGED <<routeVars, reconcileVars, depVars, eventVars, fanVars, partVars>>

\* a millisecond passes
Tick ==
    /\ ~wcrashed
    /\ wclock < MaxClock
    /\ wclock' = wclock + 1
    /\ UNCHANGED <<wdir, wfiles, wmem, wpc, wjob, wcrashed, wseen>>
    /\ UNCHANGED <<routeVars, reconcileVars, depVars, eventVars, fanVars, partVars>>

\* the process dies: the files stay as they are
Crash ==
    /\ ~wcrashed
    /\ wcrashed' = TRUE
    /\ UNCHANGED <<wclock, wdir, wfiles, wmem, wpc, wjob, wseen>>
    /\ UNCHANGED <<routeVars, reconcileVars, depVars, eventVars, fanVars, partVars>>

\* a project whose index.json holds no summary
WriteInit ==
    /\ wclock = 0
    /\ wfiles = <<[content |-> <<>>, whole |-> TRUE]>>
    /\ wdir = [p \in WritePaths |-> IF p = IndexPath THEN 1 ELSE 0]
    /\ wmem = <<>>
    /\ wpc = [w \in Writers |-> "idle"]
    /\ wjob = [w \in Writers |-> NoJob]
    /\ wcrashed = FALSE
    /\ wseen = [begun |-> 0, written |-> {<<>>}, concurrent |-> FALSE, thrown |-> 0]

WriteNext ==
    \/ \E w \in Writers, op \in {"store", "delete", "clear"} : BeginWrite(w, op)
    \/ \E w \in Writers : OpenTemp(w)
    \/ \E w \in Writers : FinishWrite(w)
    \/ \E w \in Writers : Rename(w)
    \/ Tick
    \/ Crash

WriteSpecInit == WriteInit /\ RoutesIdle /\ ReconcileIdle /\ DepIdle /\ EventIdle /\ FanIdle /\ PartsIdle

SpecWrite == WriteSpecInit /\ [][WriteNext]_vars

(***************************************************************************)
(* Event fan-out (createEventEmitter, events.ts).  An event is its number  *)
(* (the n-th emit of the emitter) and its type.  A callback is a number;   *)
(* what a callback does when it is called is fixed when the emitter is     *)
(* made: it returns, it throws, it calls an unsubscribe function (its own  *)
(* or that of another callback), or it emits a follow-up event when it is  *)
(* handed an event of type "a".  The Set of subscribers is the sequence of *)
(* its members in insertion order.  emit and flushQueue run to completion: *)
(* an action is the whole call, the calls its callbacks make included.     *)
(***************************************************************************)
MaxEmits == 3

Callbacks == {1, 2, 3}

\* what the three callbacks do, in the emitters looked at
Behaviours ==
    {<<"return", "return", "return">>,
     <<"throw", "return", "throw">>,
     <<"throw", "throw", "return">>,
     <<"unsubscribeOther", "return", "return">>,
     <<"return", "unsubscribeSelf", "throw">>,
     <<"emit", "return", "throw">>,
     <<"return", "unsubscribeOther", "emit">>,
     <<"throw", "emit", "unsubscribeOther">>}

\* the callback whose unsubscribe function callback c calls
OtherCallback(c) == (c % 3) + 1

\* batching mode: batchMs is neither 0 nor NaN
Batching == fanout.batchMs # 0

NoCall == [name |-> "", id |-> 0, at |-> <<>>, calls |-> <<>>, escaped |-> FALSE,
           flushed |-> <<>>, since |-> <<>>]

\* the emitter as one value: what emit and flushQueue read and change
FanState ==
    [subscribers |-> subscribers, queue |-> queue, flushTimer |-> flushTimer,
     timers |-> timers, emitted |-> emitted, delivered |-> delivered,
     since |-> fanout.since, dropped |-> fanout.dropped, taken |-> fanout.taken,
     calls |-> <<>>, threw |-> FALSE, escaped |-> FALSE]

\* a delete that leaves the Set as it is
DeleteNothing(set, c) == set
\* subscribers.delete(callback)
Delete(set, c) ==
    LET NotIt(x) == x # c
    IN SelectSeq(set, NotIt)

\* scheduleFlush
ScheduleFlush(st) ==
    IF st.flushTimer # 0 THEN st
    ELSE [st EXCEPT !.flushTimer = 1, !.timers = @ + 1]

\* a queue.shift() that removes nothing
ShiftNothing(q) == q
\* what queue.shift() leaves in the queue
Shift(q) == IF q = <<>> THEN q ELSE Tail(q)

\* emit in batching mode
Enqueue(st, type) ==
    LET event == [id |-> st.emitted + 1, type |-> type]
        full == Len(st.queue) >= fanout.maxQueueSize
        shifted == IF full THEN Shift(st.queue) ELSE st.queue
    IN ScheduleFlush(
           [st EXCEPT !.queue = Append(shifted, event),
                      !.emitted = @ + 1,
                      !.since = Append(@, event),
                      !.dropped = IF full /\ st.queue # <<>> /\ shifted # st.queue
                                  THEN @ \cup {st.queue[1].id} ELSE @])

\* an exception a callback throws leaves the loop uncaught
PropagatesUncaught(threw) == threw
\* try { callback(type, payload) } catch { logger.error }: whether an
\* exception the callback throws leaves the loop
Propagates(threw) == FALSE

\* how many of the first i members of the Set are still members of it
\* after a call: the iteration goes on behind them
StillThere(before, after, i) ==
    Cardinality({k \in 1..i : \E j \in 1..Len(after) : after[j] = before[k]})

\* a callback has called emit and got the emitter back in state st: an
\* exception that left emit is one the callback throws
Returned(st) == [st EXCEPT !.threw = st.escaped, !.escaped = FALSE]

RECURSIVE Deliver(_, _, _), DeliverNext(_, _, _, _), Invoke(_, _, _), EmitIn(_, _)

\* emit(type, payload) called with the emitter in state st
EmitIn(st, type) ==
    IF fanout.batchMs = 0
    THEN Deliver([st EXCEPT !.emitted = @ + 1],
                 [id |-> st.emitted + 1, type |-> type], 1)
    ELSE Enqueue(st, type)

\* callback(type, payload) for callback c
Invoke(st, c, event) ==
    LET called == [st EXCEPT !.delivered[c] = Append(@, event.id),
                             !.calls = Append(@, <<c, event.id>>),
                             !.threw = FALSE]
        does == fanout.behaviour[c]
    IN IF does = "throw" THEN [called EXCEPT !.threw = TRUE]
       ELSE IF does = "unsubscribeSelf"
            THEN [called EXCEPT !.subscribers = Delete(@, c)]
       ELSE IF does = "unsubscribeOther"
            THEN [called EXCEPT !.subscribers = Delete(@, OtherCallback(c))]
       ELSE IF does = "emit" /\ event.type = "a" /\ called.emitted < MaxEmits
            THEN Returned(EmitIn(called, "b"))
       ELSE called

\* the loop goes on after the call of the i-th member
DeliverNext(st, event, i, after) ==
    IF Propagates(after.threw) THEN [after EXCEPT !.escaped = TRUE]
    ELSE Deliver(after, event, StillThere(st.subscribers, after.subscribers, i) + 1)

\* for (const callback of subscribers) from the i-th member on
Deliver(st, event, i) ==
    IF i > Len(st.subscribers) THEN st
    ELSE DeliverNext(st, event, i, Invoke(st, st.subscribers[i], event))

RECURSIVE FlushPending(_, _, _)
\* for (const { type, payload } of pending) from the k-th event on
FlushPending(st, pending, k) ==
    IF k > Len(pending) \/ st.escaped THEN st
    ELSE FlushPending(Deliver(st, pending[k], 1), pending, k + 1)

\* a splice that leaves the queue as it is
SpliceNone(q) == q
\* what queue.splice(0, queue.length) leaves in the queue
SpliceAll(q) == <<>>

\* flushTimer stays as it is
TimerKept(timer) == timer
\* flushTimer = null
TimerCleared(timer) == 0

\* flushQueue, run by the timer
FlushQueue(st) ==
    IF st.queue = <<>> THEN [st EXCEPT !.flushTimer = TimerCleared(@)]
    ELSE FlushPending([st EXCEPT !.flushTimer = TimerCleared(@),
                                 !.queue = SpliceAll(@), !.since = <<>>,
                                 !.taken = @ \cup {st.queue[i].id : i \in 1..Len(st.queue)}],
                      st.queue, 1)

\* the emitter after a call that left it in state st
FanAfter(st, call) ==
    /\ subscribers' = st.subscribers
    /\ queue' = st.queue
    /\ flushTimer' = st.flushTimer
    /\ timers' = st.timers
    /\ emitted' = st.emitted
    /\ delivered' = st.delivered
    /\ fanout' = [fanout EXCEPT !.since = st.since, !.dropped = st.dropped,
                                !.taken = st.taken, !.last = call]

\* emit(type, payload)
Emit(type) ==
    /\ emitted < MaxEmits
    /\ \E st \in {EmitIn(FanState, type)} :
          FanAfter(st, [NoCall EXCEPT !.name = "emit", !.id = emitted + 1,
                                      !.at = subscribers, !.calls = st.calls,
                                      !.escaped = st.escaped])
    /\ UNCHANGED <<routeVars, reconcileVars, depVars, eventVars, writeVars, partVars>>

\* the flush timer fires
TimerFires ==
    /\ timers > 0
    /\ \E st \in {FlushQueue([FanState EXCEPT !.timers = @ - 1])} :
          FanAfter(st, [NoCall EXCEPT !.name = "flush", !.at = subscribers,
                                      !.calls = st.calls, !.escaped = st.escaped,
                                      !.flushed = queue, !.since = fanout.since])
    /\ UNCHANGED <<routeVars, reconcileVars, depVars, eventVars, writeVars, partVars>>

\* subscribe(callback)
Subscribe(c) ==
    /\ \A i \in 1..Len(subscribers) : subscribers[i] # c
    /\ subscribers' = Append(subscribers, c)
    /\ fanout' = [fanout EXCEPT !.last = [NoCall EXCEPT !.name = "subscribe", !.id = c]]
    /\ UNCHANGED <<queue, flushTimer, timers, emitted, delivered>>
    /\ UNCHANGED <<routeVars, reconcileVars, depVars, eventVars, writeVars, partVars>>

\* the function subscribe returned for callback c is called
Unsubscribe(c) ==
    /\ \E i \in 1..Len(subscribers) : subscribers[i] = c
    /\ subscribers' = Delete(subscribers, c)
    /\ fanout' = [fanout EXCEPT !.last = [NoCall EXCEPT !.name = "unsubscribe", !.id = c]]
    /\ UNCHANGED <<queue, flushTimer, timers, emitted, delivered>>
    /\ UNCHANGED <<routeVars, reconcileVars, depVars, eventVars, writeVars, partVars>>

\* createEventEmitter() under EVENT_EMIT_BATCH_MS and EVENT_EMIT_QUEUE_MAX
FanInit ==
    /\ subscribers = <<>>
    /\ queue = <<>>
    /\ flushTimer = 0
    /\ timers = 0
    /\ emitted = 0
    /\ delivered = [c \in Callbacks |-> <<>>]
    /\ \E config \in {<<0, 2>>, <<50, 1>>, <<50, 2>>},
          behaviour \in Behaviours :
          fanout = [batchMs |-> config[1], maxQueueSize |-> config[2],
                    behaviour |-> behaviour, since |-> <<>>, dropped |-> {},
                    taken |-> {},
                    last |-> NoCall]

FanNext ==
    \/ \E type \in {"a", "b"} : Emit(type)
    \/ TimerFires
    \/ \E c \in Callbacks : Subscribe(c)
    \/ \E c \in Callbacks : Unsubscribe(c)

FanSpecInit == FanInit /\ RoutesIdle /\ ReconcileIdle /\ DepIdle /\ EventIdle /\ WriteIdle /\ PartsIdle

SpecFanout == FanSpecInit /\ [][FanNext]_vars

\* the fan-out in batching mode when a timer that was set does fire; the
\* callbacks subscribe before the first emit and unsubscribe at any time
FanLiveInit == FanSpecInit /\ fanout.batchMs # 0

FanLiveNext ==
    \/ \E type \in {"a", "b"} : Emit(type)
    \/ TimerFires
    \/ \E c \in Callbacks : emitted = 0 /\ Subscribe(c)
    \/ \E c \in Callbacks : Unsubscribe(c)

\* a timer is pending: setTimeout was called and its callback has not run
TimerDue == timers > 0

\* the event loop runs every pending timer callback: weak fairness of
\* TimerFires, whose enabling condition is TimerDue
TimersRun == []<>(~TimerDue) \/ []<><<TimerFires>>_vars

SpecFanoutLive == FanLiveInit /\ [][FanLiveNext]_vars /\ TimersRun

(***************************************************************************)
(* The task extractor on one line (plan-reconcile.ts:45-77): a line is     *)
(* drawn and parseTaskLineFlexible is called on it.                        *)
(***************************************************************************)
\* most digits a raw task id is drawn with
MaxDigits == 4

\* the digits raw ids are written with
DigitsUsed == {0, 1, 7}

RawDigits == UNION {[1..n -> DigitsUsed] : n \in 0..MaxDigits}

\* leading markers and id words of the lines drawn; "Tsk" is no id word
LinePrefixes == {"", "- [ ] ", "1. ", "- ", "- [x] "}
LineWords == {"T", "t", "Task", "task ", "Tsk"}

ExtractInit ==
    /\ xline \in {TaskLine(prefix, word, digits, "d", file) :
                     prefix \in LinePrefixes, word \in LineWords,
                     digits \in RawDigits, file \in {NoPath, RelA}}
                 \cup {TextLine("intro"), PhaseLine("Phase 1")}
    /\ xtask = <<>>
    /\ xpc = "init"

\* parseTaskLineFlexible(line)
ParseLine ==
    /\ xpc = "init"
    /\ xtask' = ParseTaskLineFlexible(xline, "")
    /\ xpc' = "parsed"
    /\ UNCHANGED <<xline, routeVars, reconcileVars, depVars, eventVars, writeVars, fanVars,
                   stepVars, applyVars>>

ExtractNext == ParseLine

ExtractSpecInit ==
    /\ ExtractInit
    /\ RoutesIdle /\ ReconcileIdle /\ DepIdle /\ EventIdle /\ WriteIdle /\ FanIdle
    /\ StepIdle /\ ApplyIdle

SpecExtract == ExtractSpecInit /\ [][ExtractNext]_vars

(***************************************************************************)
(* The event store step by step (event-history-service.ts).  The calls on  *)
(* one project of one service instance are followed from await to await:   *)
(* a step runs from the completion of one file operation to the start of   *)
(* the next, and another call can run between two steps.  The temp paths   *)
(* of the index writes are taken as distinct, so an index write is the     *)
(* serialization of the object and, a step later, the rename.              *)
(***************************************************************************)
\* most calls begun
MaxCalls == 3

Callers == {1, 2}

NoCallHeld == [pc |-> "idle", op |-> "", id |-> 0, ref |-> -1, content |-> <<>>, todo |-> <<>>]

\* index.events of the index object ref
Events(ref) == IF ref = 0 THEN sdefault ELSE sheap[ref]

\* a call from the point where getIndex has returned the object ref to its
\* next await.  store: unshift, splice, then the unlinks of the pruned
\* files or JSON.stringify; delete: filter, return false or
\* JSON.stringify; clear: the loop of unlinks, or JSON.stringify of
\* DEFAULT_EVENT_HISTORY_INDEX
AfterGetIndex(c, call, ref, heap, seen) ==
    LET old == IF ref = 0 THEN sdefault ELSE heap[ref]
        NotIt(e) == e # call.id
        events == CASE call.op = "store" -> Kept(Unshift(old, call.id))
                    [] call.op = "delete" -> SelectSeq(old, NotIt)
                    [] OTHER -> old
        removed == CASE call.op = "store" -> Splice(Unshift(old, call.id))
                     [] call.op = "delete" -> IF events # old THEN <<call.id>> ELSE <<>>
                     [] OTHER -> old
        todo == IF call.op = "delete" THEN <<>> ELSE removed
        notFound == call.op = "delete" /\ events = old
        default == IF ref = 0 THEN events ELSE sdefault
    IN /\ sheap' = IF ref = 0 THEN heap ELSE [heap EXCEPT ![ref] = events]
       /\ sdefault' = default
       /\ scall' = [scall EXCEPT ![c] =
                       IF notFound THEN NoCallHeld
                       ELSE IF todo # <<>>
                       THEN [call EXCEPT !.pc = "unlinking", !.ref = ref, !.todo = todo]
                       ELSE [call EXCEPT !.pc = "writing", !.ref = ref,
                                         !.content = IF call.op = "clear" THEN default
                                                     ELSE events]]
       /\ sseen' = [seen EXCEPT !.gone = @ \cup {removed[i] : i \in 1..Len(removed)}]

\* getIndex: the cached object, or the start of readJsonFile
GetIndexStep(c, call, seen) ==
    IF scache # -1
    THEN /\ AfterGetIndex(c, call, scache, sheap, seen)
         /\ UNCHANGED scache
    ELSE /\ scall' = [scall EXCEPT ![c] = [call EXCEPT !.pc = "reading"]]
         /\ sseen' = seen
         /\ UNCHANGED <<sheap, sdefault, scache>>

\* storeEvent up to the write of the event file
StartStore(c) ==
    /\ scall[c].pc = "idle"
    /\ sseen.begun < MaxCalls
    /\ scall' = [scall EXCEPT ![c] =
                    [NoCallHeld EXCEPT !.pc = "event", !.op = "store", !.id = sseen.stores + 1]]
    /\ sseen' = [sseen EXCEPT !.begun = @ + 1, !.stores = @ + 1]
    /\ UNCHANGED <<sindex, sfiles, sdefault, sheap, scache>>
    /\ UNCHANGED <<routeVars, reconcileVars, depVars, eventVars, writeVars, fanVars, extractVars, applyVars>>

\* the event file is written; addToIndex calls getIndex
WriteEventFile(c) ==
    /\ scall[c].pc = "event"
    /\ sfiles' = sfiles \cup {scall[c].id}
    /\ GetIndexStep(c, scall[c], sseen)
    /\ UNCHANGED sindex
    /\ UNCHANGED <<routeVars, reconcileVars, depVars, eventVars, writeVars, fanVars, extractVars, applyVars>>

\* deleteEvent(projectPath, eventId) up to its first await of a file
StartDelete(c, eventId) ==
    /\ scall[c].pc = "idle"
    /\ sseen.begun < MaxCalls
    /\ eventId \in 1..sseen.stores
    /\ GetIndexStep(c, [NoCallHeld EXCEPT !.op = "delete", !.id = eventId],
                    [sseen EXCEPT !.begun = @ + 1, !.onlyStores = FALSE])
    /\ UNCHANGED <<sindex, sfiles>>
    /\ UNCHANGED <<routeVars, reconcileVars, depVars, eventVars, writeVars, fanVars, extractVars, applyVars>>

\* clearEvents(projectPath) up to its first await of a file
StartClear(c) ==
    /\ scall[c].pc = "idle"
    /\ sseen.begun < MaxCalls
    /\ GetIndexStep(c, [NoCallHeld EXCEPT !.op = "clear"],
                    [sseen EXCEPT !.begun = @ + 1, !.onlyStores = FALSE])
    /\ UNCHANGED <<sindex, sfiles>>
    /\ UNCHANGED <<routeVars, reconcileVars, depVars, eventVars, writeVars, fanVars, extractVars, applyVars>>

\* readJsonFile has read index.json, or found none and returns the default
\* object; getIndex caches what it returns
FinishRead(c) ==
    /\ scall[c].pc = "reading"
    /\ LET ref == IF sindex = NoIndexFile THEN 0 ELSE Len(sheap) + 1
           heap == IF sindex = NoIndexFile THEN sheap ELSE Append(sheap, sindex)
       IN /\ scache' = ref
          /\ AfterGetIndex(c, scall[c], ref, heap, sseen)
    /\ UNCHANGED <<sindex, sfiles>>
    /\ UNCHANGED <<routeVars, reconcileVars, depVars, eventVars, writeVars, fanVars, extractVars, applyVars>>

\* unlink of the next pruned file (addToIndex) or of the next listed file
\* (clearEvents); after the last one the index is serialized
UnlinkNext(c) ==
    /\ scall[c].pc = "unlinking"
    /\ sfiles' = sfiles \ {Head(scall[c].todo)}
    /\ scall' = [scall EXCEPT ![c] =
                    IF Tail(scall[c].todo) # <<>> THEN [@ EXCEPT !.todo = Tail(@)]
                    ELSE [@ EXCEPT !.todo = <<>>, !.pc = "writing",
                                   !.content = IF scall[c].op = "clear" THEN sdefault
                                               ELSE Events(scall[c].ref)]]
    /\ UNCHANGED <<sindex, sdefault, sheap, scache, sseen>>
    /\ UNCHANGED <<routeVars, reconcileVars, depVars, eventVars, writeVars, fanVars, extractVars, applyVars>>

\* the rename of atomicWriteJson(indexPath, ...) and setCacheEntry; store
\* and clear return, delete goes on to unlink the event file
PublishIndex(c) ==
    /\ scall[c].pc = "writing"
    /\ sindex' = scall[c].content
    /\ scache' = IF scall[c].op = "clear" THEN 0 ELSE scall[c].ref
    /\ scall' = [scall EXCEPT ![c] =
                    IF scall[c].op = "delete" THEN [@ EXCEPT !.pc = "removing"]
                    ELSE NoCallHeld]
    /\ sseen' = [sseen EXCEPT !.returned =
                    IF scall[c].op = "store" THEN @ \cup {scall[c].id} ELSE @]
    /\ UNCHANGED <<sfiles, sdefault, sheap>>
    /\ UNCHANGED <<routeVars, reconcileVars, depVars, eventVars, writeVars, fanVars, extractVars, applyVars>>

\* deleteEvent unlinks the event file and returns true
RemoveEventFile(c) ==
    /\ scall[c].pc = "removing"
    /\ sfiles' = sfiles \ {scall[c].id}
    /\ scall' = [scall EXCEPT ![c] = NoCallHeld]
    /\ UNCHANGED <<sindex, sdefault, sheap, scache, sseen>>
    /\ UNCHANGED <<routeVars, reconcileVars, depVars, eventVars, writeVars, fanVars, extractVars, applyVars>>

\* the cache entry is older than the TTL: the next getCacheEntry drops it
StepCacheExpires ==
    /\ scache # -1
    /\ scache' = -1
    /\ UNCHANGED <<sindex, sfiles, sdefault, sheap, scall, sseen>>
    /\ UNCHANGED <<routeVars, reconcileVars, depVars, eventVars, writeVars, fanVars, extractVars, applyVars>>

\* a new service instance on a project without index.json or with an index
\* that lists nothing
StepInit ==
    /\ sindex \in {NoIndexFile, <<>>}
    /\ sfiles = {}
    /\ sdefault = DEFAULT_EVENT_HISTORY_INDEX
    /\ sheap = <<>>
    /\ scache = -1
    /\ scall = [c \in Callers |-> NoCallHeld]
    /\ sseen = [begun |-> 0, stores |-> 0, returned |-> {}, gone |-> {}, onlyStores |-> TRUE]

StepNext ==
    \/ \E c \in Callers : StartStore(c)
    \/ \E c \in Callers : WriteEventFile(c)
    \/ \E c \in Callers, eventId \in 1..MaxCalls : StartDelete(c, eventId)
    \/ \E c \in Callers : StartClear(c)
    \/ \E c \in Callers : FinishRead(c)
    \/ \E c \in Callers : UnlinkNext(c)
    \/ \E c \in Callers : PublishIndex(c)
    \/ \E c \in Callers : RemoveEventFile(c)
    \/ StepCacheExpires

StepSpecInit ==
    /\ StepInit
    /\ RoutesIdle /\ ReconcileIdle /\ DepIdle /\ EventIdle /\ WriteIdle /\ FanIdle
    /\ ExtractIdle /\ ApplyIdle

SpecStoreSteps == StepSpecInit /\ [][StepNext]_vars

(***************************************************************************)
(* Apply-plan (backlog-plan/routes/apply.ts).  A request carries a plan;   *)
(* the handler runs its four passes over the records FeatureLoader holds.  *)
(* A record is [exists, dependencies]; FeatureLoader.update replaces the   *)
(* fields it is given and throws when the record does not exist.           *)
(***************************************************************************)
\* most planChanges of a plan drawn
MaxPlanChanges == 2

\* the ids of the records before the request, in the order of getAll, and
\* the id the plan gives the record it adds
LoadedIds == <<"x", "y", "z">>
AddedId == "n"
ApplyIds == {"x", "y", "z", "n"}

\* feature.dependencies that is not given
NotGiven == <<"-">>

Includes(deps, id) == \E i \in 1..Len(deps) : deps[i] = id

\* deps.filter((d) => d !== id)
Without(deps, id) == LET Keep(d) == d # id IN SelectSeq(deps, Keep)

\* FeatureLoader.update(projectPath, id, { dependencies }) on the records
UpdateRecord(store, id, dependencies) == [store EXCEPT ![id].dependencies = dependencies]

\* first pass, one delete change: the loop over allFeatures that takes the
\* id out of the dependencies of each record that listed it when the
\* records were loaded; threw says that an update threw
RECURSIVE RemoveFromDependents(_, _, _, _)
RemoveFromDependents(store, allFeatures, featureId, i) ==
    IF i > Len(LoadedIds) THEN [store |-> store, threw |-> FALSE]
    ELSE LET id == LoadedIds[i]
         IN IF Includes(allFeatures[id].dependencies, featureId)
            THEN IF ~store[id].exists THEN [store |-> store, threw |-> TRUE]
                 ELSE RemoveFromDependents(
                          UpdateRecord(store, id, Without(allFeatures[id].dependencies, featureId)),
                          allFeatures, featureId, i + 1)
            ELSE RemoveFromDependents(store, allFeatures, featureId, i + 1)

\* first pass, one delete change
DeleteChange(st, allFeatures, change) ==
    LET loop == RemoveFromDependents(st.store, allFeatures, change.featureId, 1)
        deleted == loop.store[change.featureId].exists
    IN IF loop.threw THEN [st EXCEPT !.store = loop.store]
       ELSE IF ~deleted THEN [st EXCEPT !.store = loop.store]
       ELSE [st EXCEPT !.store = [loop.store EXCEPT ![change.featureId].exists = FALSE],
                       !.featureMap = [@ EXCEPT ![change.featureId].exists = FALSE],
                       !.deleted = @ \cup {change.featureId},
                       !.appliedChanges = Append(@, <<"deleted", change.featureId>>)]

\* the ids of the add planChanges of the plan, and of those that are foundation
\* features
AdditionIds(planChanges) ==
    LET IsAdd(c) == c.type = "add"
        adds == SelectSeq(planChanges, IsAdd)
    IN [i \in 1..Len(adds) |-> adds[i].featureId]

FoundationIds(planChanges) ==
    LET IsFoundationAdd(c) == c.type = "add" /\ c.foundation
        adds == SelectSeq(planChanges, IsFoundationAdd)
    IN [i \in 1..Len(adds) |-> adds[i].featureId]

EffectiveFoundationIds(planChanges) ==
    IF FoundationIds(planChanges) # <<>> THEN FoundationIds(planChanges)
    ELSE SubSeq(AdditionIds(planChanges), 1, 1)

\* resolveDependencies(change.feature); existingIds are the ids loaded
\* before the first pass
ResolveDependencies(planChanges, change) ==
    LET rawDeps == IF change.dependencies = NotGiven THEN <<>> ELSE change.dependencies
        Valid(dep) == Includes(LoadedIds, dep) \/ Includes(AdditionIds(planChanges), dep)
        validDeps == SelectSeq(rawDeps, Valid)
    IN IF validDeps # <<>> THEN validDeps
       ELSE IF change.foundation THEN <<>>
       ELSE Without(EffectiveFoundationIds(planChanges), change.featureId)

\* second pass, one add change
AddChange(st, planChanges, change) ==
    LET newFeature == [exists |-> TRUE, dependencies |-> ResolveDependencies(planChanges, change)]
    IN [st EXCEPT !.store = [@ EXCEPT ![change.featureId] = newFeature],
                  !.featureMap = [@ EXCEPT ![change.featureId] = newFeature],
                  !.appliedChanges = Append(@, <<"added", change.featureId>>)]

\* third pass, one update change
UpdateChange(st, change) ==
    IF ~st.store[change.featureId].exists THEN st
    ELSE LET updated == IF change.dependencies = NotGiven THEN st.store[change.featureId]
                        ELSE [st.store[change.featureId] EXCEPT
                                 !.dependencies = change.dependencies]
         IN [st EXCEPT !.store = [@ EXCEPT ![change.featureId] = updated],
                       !.featureMap = [@ EXCEPT ![change.featureId] = updated],
                       !.appliedChanges = Append(@, <<"updated", change.featureId>>)]

\* fourth pass, one entry of plan.dependencyUpdates
DependencyUpdate(st, depUpdate) ==
    LET feature == st.featureMap[depUpdate.featureId]
        currentDeps == feature.dependencies
        NotRemoved(d) == ~Includes(depUpdate.removedDependencies, d)
        IsNew(d) == ~Includes(currentDeps, d)
        newDeps == SelectSeq(currentDeps, NotRemoved)
                      \o SelectSeq(depUpdate.addedDependencies, IsNew)
    IN IF ~feature.exists \/ ~st.store[depUpdate.featureId].exists THEN st
       ELSE [st EXCEPT !.store = UpdateRecord(@, depUpdate.featureId, newDeps)]

\* one pass: the planChanges of one type, in the order of the plan
RECURSIVE ApplyPass(_, _, _, _, _)
ApplyPass(st, allFeatures, planChanges, type, i) ==
    IF i > Len(planChanges) THEN st
    ELSE IF planChanges[i].type # type THEN ApplyPass(st, allFeatures, planChanges, type, i + 1)
    ELSE ApplyPass(CASE type = "delete" -> DeleteChange(st, allFeatures, planChanges[i])
                     [] type = "add" -> AddChange(st, planChanges, planChanges[i])
                     [] OTHER -> UpdateChange(st, planChanges[i]),
                   allFeatures, planChanges, type, i + 1)

RECURSIVE DependencyPass(_, _, _)
DependencyPass(st, dependencyUpdates, i) ==
    IF i > Len(dependencyUpdates) THEN st
    ELSE DependencyPass(DependencyUpdate(st, dependencyUpdates[i]), dependencyUpdates, i + 1)

\* the handler from getAll to the response
ApplyPlan(store, plan) ==
    LET loaded == [store |-> store, featureMap |-> store, deleted |-> {},
                   appliedChanges |-> <<>>]
        deletes == ApplyPass(loaded, store, plan.changes, "delete", 1)
        adds == ApplyPass(deletes, store, plan.changes, "add", 1)
        updates == ApplyPass(adds, store, plan.changes, "update", 1)
    IN DependencyPass(updates, plan.dependencyUpdates, 1)

\* a change of a plan
Change(type, featureId, dependencies, foundation) ==
    [type |-> type, featureId |-> featureId, dependencies |-> dependencies,
     foundation |-> foundation]

\* the planChanges plans are drawn from
ChangePool ==
    {Change("delete", id, NotGiven, FALSE) : id \in {"x", "z"}}
    \cup {Change("add", AddedId, deps, foundation) :
             deps \in {NotGiven, <<"x">>, <<"y">>, <<"x", "y">>}, foundation \in BOOLEAN}
    \cup {Change("update", "y", deps, FALSE) : deps \in {NotGiven, <<"x">>, <<>>}}
    \cup {Change("update", "x", NotGiven, FALSE)}

OneAdd(planChanges) == Len(AdditionIds(planChanges)) <= 1

PlanChanges ==
    {planChanges \in UNION {[1..n -> ChangePool] : n \in 0..MaxPlanChanges} : OneAdd(planChanges)}

DepUpdate(featureId, removedDependencies, addedDependencies) ==
    [featureId |-> featureId, removedDependencies |-> removedDependencies,
     addedDependencies |-> addedDependencies]

PlanDependencyUpdates ==
    {<<>>, <<DepUpdate("y", <<>>, <<"z">>)>>, <<DepUpdate("y", <<"x">>, <<>>)>>,
     <<DepUpdate("z", <<>>, <<"y">>)>>, <<DepUpdate(AddedId, <<>>, <<"y">>)>>}

\* the records before the request: no record lists a missing one
ApplyStores ==
    {[id \in ApplyIds |->
         CASE id = "x" -> [exists |-> TRUE, dependencies |-> <<>>]
           [] id = "y" -> [exists |-> TRUE, dependencies |-> ydeps]
           [] id = "z" -> [exists |-> TRUE, dependencies |-> zdeps]
           [] OTHER -> [exists |-> FALSE, dependencies |-> <<>>]] :
        ydeps \in {<<>>, <<"x">>, <<"z">>, <<"x", "z">>}, zdeps \in {<<>>, <<"x">>}}

ApplyInit ==
    /\ astore \in ApplyStores
    /\ aplan \in [changes : PlanChanges, dependencyUpdates : PlanDependencyUpdates]
    /\ aresp = [done |-> FALSE, deleted |-> {}, appliedChanges |-> <<>>]

\* POST /apply
Apply ==
    /\ ~aresp.done
    /\ \E st \in {ApplyPlan(astore, aplan)} :
          /\ astore' = st.store
          /\ aresp' = [done |-> TRUE, deleted |-> st.deleted,
                       appliedChanges |-> st.appliedChanges]
    /\ UNCHANGED aplan
    /\ UNCHANGED <<routeVars, reconcileVars, depVars, eventVars, writeVars, fanVars,
                   extractVars, stepVars>>

ApplyNext == Apply

ApplySpecInit ==
    /\ ApplyInit
    /\ RoutesIdle /\ ReconcileIdle /\ DepIdle /\ EventIdle /\ WriteIdle /\ FanIdle
    /\ ExtractIdle /\ StepIdle

SpecApply == ApplySpecInit /\ [][ApplyNext]_vars

(***************************************************************************)
(* Properties of reconcile in isolation (SpecReconcile).                   *)
(***************************************************************************)
\* C1: a second call of reconcile with the files unchanged, on the record
\* with the first result merged into its planSpec or on the same record
\* object, returns a result identical to the first one: same tasks (statuses
\* and timestamps), same counters, same currentTaskId, same missingFiles.
C1_Idempotent == rcall \in {"merged", "again"} => r2 = r1

\* the first call moved a task to another status and reported a missing
\* file, and the call on the merged record returned the same result
C1_Witness ==
    /\ rcall = "merged"
    /\ rfeature.planSpec.tasks # <<>>
    /\ \E i \in 1..Len(r1.tasks) : r1.tasks[i].status # rfeature.planSpec.tasks[i].status
    /\ r1.missingFiles # <<>>
    /\ r2 = r1

\* C2: for every task with a filePath, a file at one of the candidate paths
\* turns an input status pending or in_progress into completed with
\* completedAt set, and a file at none of them turns an input status
\* completed into pending with the filePath reported in missingFiles.
C2_EvidenceOverride ==
    (rcall = "once" /\ ~r1.isNull) =>
        LET input == rafter.planSpec.tasks
            Exists(fp) == \E i \in 1..Len(CandidatePaths(rfeature, fp)) :
                              Stat(rfs, CandidatePaths(rfeature, fp)[i]) # 0
        IN \A i \in 1..Len(input) :
              input[i].filePath # NoPath =>
                /\ (Exists(input[i].filePath) /\ input[i].status \in {"pending", "in_progress"})
                      => (r1.tasks[i].status = "completed" /\ r1.tasks[i].completedAt # 0)
                /\ (~Exists(input[i].filePath) /\ input[i].status = "completed")
                      => /\ r1.tasks[i].status = "pending"
                         /\ \E m \in 1..Len(r1.missingFiles) :
                               r1.missingFiles[m] = input[i].filePath

\* one task was in progress and its file is there, another was completed and
\* its file is gone
C2_Witness ==
    /\ rcall = "once"
    /\ Len(r1.tasks) = 2
    /\ rfeature.planSpec.tasks[1].status = "in_progress"
    /\ rfeature.planSpec.tasks[1].filePath = RelA
    /\ rfs[ProjectLoc("a.ts")] = 0
    /\ rfs[WorktreeLoc(SanitizeWorktreeName(BranchX), "a.ts")] # 0
    /\ r1.tasks[1].status = "completed"
    /\ rfeature.planSpec.tasks[2].status = "completed"
    /\ rfeature.planSpec.tasks[2].filePath = AbsB
    /\ rfs[AbsLoc("b.ts")] = 0
    /\ r1.tasks[2].status = "pending"
    /\ r1.missingFiles = <<AbsB>>

\* C4: in a result that is not null, tasksTotal is the number of tasks,
\* tasksCompleted is the number of tasks whose reconciled status is
\* completed, and currentTaskId is the id of the first task in list order
\* whose reconciled status is not completed, unset exactly when every task
\* is completed.
C4_Counters ==
    (rcall = "once" /\ ~r1.isNull) =>
        LET open == {i \in 1..Len(r1.tasks) : r1.tasks[i].status # "completed"}
        IN /\ r1.tasksTotal = Len(r1.tasks)
           /\ r1.tasksCompleted =
                Cardinality({i \in 1..Len(r1.tasks) : r1.tasks[i].status = "completed"})
           /\ (r1.currentTaskId = NoId) <=> (open = {})
           /\ open # {} =>
                \E i \in open : /\ \A j \in open : i <= j
                                /\ r1.currentTaskId = r1.tasks[i].id

\* T001 is done and its file is there, T002 is left and its file is missing
C4_Witness ==
    /\ rcall = "once"
    /\ ~r1.isNull
    /\ r1.tasksCompleted = 1
    /\ r1.tasksTotal = 2
    /\ r1.tasks[1].status = "completed"
    /\ r1.currentTaskId = PadStart3(<<2>>)
    /\ r1.missingFiles = <<AbsB>>

\* C6 as stated: reconcile never sets a task's status to failed, and a task
\* whose input status is failed still has status failed in the result,
\* whether or not its file exists.
C6_FailedStickyAlways ==
    (rcall = "once" /\ ~r1.isNull) =>
        LET input == rafter.planSpec.tasks
        IN \A i \in 1..Len(input) :
              /\ r1.tasks[i].status = "failed" => input[i].status = "failed"
              /\ input[i].status = "failed" => r1.tasks[i].status = "failed"

\* C6: reconcile never sets a task's status to failed; a task whose input
\* status is failed still has status failed in the result when it has no
\* filePath or its file is at none of the candidate paths, and has status
\* completed when its file is at one of them.
C6_FailedStickyOnMiss ==
    (rcall = "once" /\ ~r1.isNull) =>
        LET input == rafter.planSpec.tasks
            Exists(fp) == \E i \in 1..Len(CandidatePaths(rfeature, fp)) :
                              Stat(rfs, CandidatePaths(rfeature, fp)[i]) # 0
        IN \A i \in 1..Len(input) :
              /\ r1.tasks[i].status = "failed" => input[i].status = "failed"
              /\ input[i].status = "failed" =>
                    r1.tasks[i].status =
                        IF input[i].filePath # NoPath /\ Exists(input[i].filePath)
                        THEN "completed" ELSE "failed"

\* a failed task whose file is missing stays failed, next to a failed task
\* whose file is there and that comes out completed
C6_Witness ==
    /\ rcall = "once"
    /\ Len(r1.tasks) = 2
    /\ rfeature.planSpec.tasks[1].status = "failed"
    /\ rfeature.planSpec.tasks[1].filePath = RelA
    /\ r1.tasks[1].status = "failed"
    /\ r1.missingFiles = <<RelA>>
    /\ rfeature.planSpec.tasks[2].status = "failed"
    /\ rfeature.planSpec.tasks[2].filePath = AbsB
    /\ r1.tasks[2].status = "completed"

\* C7 as stated: reconcile returns null only when the record has no attached
\* non-empty task list, its plan text yields no task and its agent-output.md
\* yields no task; so a plan text without a task and an agent-output.md with
\* tasks give a result that is not null.
C7_NullOnlyWhenAllSourcesFail ==
    (rcall = "once" /\ r1.isNull) =>
        /\ rfeature.planSpec.tasks = <<>>
        /\ ParseTasksFromContent(rfeature.planSpec.content) = <<>>
        /\ (routput = NoOutput
              \/ ParseTasksFromContent(PlanContentOfOutput(routput)) = <<>>)

\* C7: reconcile returns null exactly when the record has no attached
\* non-empty task list, its plan text yields no task, and either the plan
\* text is not empty (agent-output.md is then not read) or agent-output.md
\* cannot be read or yields no task.
C7_NullIffNoTaskSource ==
    rcall = "once" =>
        (r1.isNull <=>
            /\ rfeature.planSpec.tasks = <<>>
            /\ ParseTasksFromContent(rfeature.planSpec.content) = <<>>
            /\ \/ rfeature.planSpec.content # <<>>
               \/ routput = NoOutput
               \/ ParseTasksFromContent(PlanContentOfOutput(routput)) = <<>>)

\* the plan text has no task, agent-output.md has tasks, the result is null
C7_Witness ==
    /\ rcall = "once"
    /\ rfeature.planSpec.tasks = <<>>
    /\ rfeature.planSpec.content = ProseContent
    /\ routput # NoOutput
    /\ ParseTasksFromContent(PlanContentOfOutput(routput)) # <<>>
    /\ r1.isNull

\* C8 as stated: a call of reconcile leaves the record object passed to it
\* as it was before the call (planSpec, planSpec.tasks and planSpec.content
\* included).
C8_RecordUnchanged == rcall = "once" => rafter = rfeature

C5_PersistedPlanSpec ==
    [][\A f \in lastOp'.wrote :
          LET planSpec == features'[f].planSpec
          IN /\ planSpec.tasksCompleted >= 0
             /\ planSpec.tasksCompleted <= planSpec.tasksTotal
             /\ planSpec.currentTaskId # NoId =>
                   \E i \in 1..Len(planSpec.tasks) :
                      /\ planSpec.tasks[i].id = planSpec.currentTaskId
                      /\ planSpec.tasks[i].status # "completed"]_vars

\* a file was written, and the plan persisted afterwards counts T001 as done
\* and points at T002
C5_Witness ==
    /\ changes > 0
    /\ lastOp.wrote = {F1}
    /\ features[F1].planSpec.tasksCompleted = 1
    /\ features[F1].planSpec.tasksTotal = 2
    /\ features[F1].planSpec.tasks[1].completedAt = MtimeOf(ProjectLoc("a.ts"))
    /\ features[F1].planSpec.currentTaskId = T002

\* C9: once list, reconcile-plan or recovery-center has looked at a record,
\* a further run of one of the three, with no change to the files or to the
\* records in between, does not write that record.
C9_NoWriteAmplification ==
    [][lastOp'.name \in ReconcilingOps =>
          \A f \in settled : f \notin lastOp'.wrote /\ features'[f] = features[f]]_vars

\* list wrote F1, and the run of a polled handler that came next looked at
\* F1 again and wrote nothing
C9_Witness ==
    /\ lastOp.name \in ReconcilingOps
    /\ lastOp.again
    /\ lastOp.wrote = {}
    /\ F1 \in settled
    /\ features[F1].planSpec.tasksTotal = 2
    /\ features[F1].status = "backlog"

\* C10 as stated: a record that list, reconcile-plan, rebuild-output,
\* resume-pending, recovery-center or timeline has just persisted a
\* reconciled plan for is never at once planSpec.status = approved,
\* tasksCompleted < tasksTotal and waiting_approval, verified or completed.
C10_NeverApprovedDoneUnfinished ==
    [][\A f \in lastOp'.wrote :
          ~ /\ features'[f].planSpec.status = "approved"
            /\ features'[f].planSpec.tasksCompleted < features'[f].planSpec.tasksTotal
            /\ features'[f].status \in {"waiting_approval", "verified", "completed"}]_vars

\* C11: when recovery-center returns, every item reports the status of the
\* persisted record and, when it reports a plan, the tasksCompleted,
\* tasksTotal and currentTaskId of the persisted record (it reports no plan
\* only when the persisted record counts no task); and for every record
\* reconcile returned a result for, the item reports the counters of that
\* result.
C11_ReportMatchesRecord ==
    report.given =>
        \A i \in 1..Len(report.items) :
            LET item == report.items[i]
                stored == features[item.featureId]
                reconciled == report.reconciled[item.featureId]
            IN /\ item.status = stored.status
               /\ IF item.plan = NoPlan THEN stored.planSpec.tasksTotal \in {-1, 0}
                  ELSE /\ item.plan.tasksCompleted = stored.planSpec.tasksCompleted
                       /\ item.plan.tasksTotal = stored.planSpec.tasksTotal
                       /\ item.plan.currentTaskId = stored.planSpec.currentTaskId
               /\ ~reconciled.isNull =>
                     /\ item.plan # NoPlan
                     /\ item.plan.tasksCompleted = reconciled.tasksCompleted
                     /\ item.plan.tasksTotal = reconciled.tasksTotal
                     /\ item.plan.currentTaskId = reconciled.currentTaskId

\* recovery-center repaired the status of F1 and persisted its plan, and
\* the item of F1 reports the repaired status and the persisted counters
C11_Witness ==
    /\ report.given
    /\ lastOp.wrote = {F1}
    /\ Len(report.items) >= 1
    /\ report.items[1].featureId = F1
    /\ report.items[1].status = "backlog"
    /\ features[F1].status = "backlog"
    /\ report.items[1].plan.tasksCompleted = 1
    /\ report.items[1].plan.tasksTotal = 2
    /\ report.items[1].plan.currentTaskId = T002

\* C12 as stated: a record without issue is left out of items unless
\* includeAll is set, summary.totalItems counts every record of the project
\* whether or not includeAll is set, and summary.total is the number of
\* records with at least one issue.
C12_TotalItemsCountsEveryRecord ==
    report.given =>
        /\ \A f \in FeatureIds :
              (\E i \in 1..Len(report.items) : report.items[i].featureId = f)
                <=> (report.entries[f].issues # <<>> \/ report.includeAll)
        /\ report.summary.totalItems = Cardinality(FeatureIds)
        /\ report.summary.total =
              Cardinality({f \in FeatureIds : report.entries[f].issues # <<>>})

\* C18: a resume-pending request on a record of the project, served by a
\* handler that has the auto mode service, starts the agent resume exactly
\* when reconcile of the record returns a result with tasksCompleted <
\* tasksTotal; otherwise it answers declined, starts nothing and leaves
\* agent-output.md as it was; and when the resume is started, the record on
\* disk already holds the reconciled plan and agent-output.md is already the
\* rebuilt one.
C18_ResumeExactlyWhenPending ==
    [][(lastOp'.name = "resume-pending" /\ lastOp'.outcome \notin {"error", "not_found"}) =>
          LET fid == lastOp'.fid
              reconciled == ReconcileFeaturePlanSpec(fs, outputs[fid], features[fid]).result
          IN /\ resume'.started <=>
                   (~reconciled.isNull /\ reconciled.tasksCompleted < reconciled.tasksTotal)
             /\ ~resume'.started =>
                   (lastOp'.outcome = "declined" /\ outputs' = outputs)
             /\ resume'.started =>
                   /\ lastOp'.outcome = "resumed"
                   /\ resume'.fid = fid
                   /\ resume'.feature = features'[fid]
                   /\ features'[fid].planSpec.tasks = reconciled.tasks
                   /\ features'[fid].planSpec.tasksCompleted = reconciled.tasksCompleted
                   /\ features'[fid].planSpec.tasksTotal = reconciled.tasksTotal
                   /\ features'[fid].planSpec.currentTaskId = reconciled.currentTaskId
                   /\ resume'.output = outputs'[fid]
                   /\ outputs'[fid] = BuildRebuiltOutput(fs, features'[fid], reconciled.tasks,
                                                         reconciled.missingFiles)]_vars

\* the resume of F1 was started with one task of two left, after the plan
\* was written to the record and agent-output.md was rebuilt
C18_Witness ==
    /\ lastOp.name = "resume-pending"
    /\ lastOp.outcome = "resumed"
    /\ lastOp.wrote = {F1}
    /\ resume.started
    /\ resume.fid = F1
    /\ resume.reconciled.tasksCompleted = 1
    /\ resume.reconciled.tasksTotal = 2
    /\ features[F1].planSpec.tasksCompleted = 1
    /\ resume.output = outputs[F1]
    /\ outputs[F1] # NoOutput

(***************************************************************************)
(* Properties of the dependency restorer (SpecDeps).                       *)
(***************************************************************************)
Range(seq) == {seq[i] : i \in 1..Len(seq)}

NoDuplicate(seq) == Cardinality(Range(seq)) = Len(seq)

\* C13: in every entry of results computed for a record, candidates lists,
\* each once, the trimmed non-empty ids of backupDeps and planDeps other than
\* the record's own id, and missing lists, each once, exactly the candidates
\* that are ids of records of the project and are not among the record's
\* current dependencies; so missing is part of candidates and holds neither
\* the record's own id nor an unknown id.
C13_CandidatesAndMissing ==
    \A i \in 1..Len(dresp.results) :
        LET result == dresp.results[i]
            given == dresp.inputs[i]
            union == {Trim(dep) : dep \in Range(given.backupDependencies)
                                          \cup Range(given.planDependencies)}
            expected == (union \ {<<>>}) \ {result.featureId}
        IN result.featureId \in FeatureIds =>
              /\ Range(result.candidates) = expected
              /\ NoDuplicate(result.candidates)
              /\ Range(result.restoredDependencies) =
                    {dep \in expected : dep \in FeatureIds
                                         /\ dep \notin Range(given.dependencies)}
              /\ NoDuplicate(result.restoredDependencies)
              /\ Range(result.restoredDependencies) \subseteq Range(result.candidates)
              /\ result.featureId \notin Range(result.restoredDependencies)
              /\ Range(result.restoredDependencies) \subseteq FeatureIds

\* the backups of F1 name " f2", F1 itself and "f2", its plan names f2, " "
\* and the unknown f3: the candidates are f2 and f3, f2 alone is missing
C13_Witness ==
    \E i \in 1..Len(dresp.results) :
        /\ dresp.results[i].featureId = F1
        /\ dresp.inputs[i].backupDependencies = <<PadF2, F1, F2>>
        /\ dresp.inputs[i].planDependencies = <<F2, F3>>
        /\ dresp.inputs[i].dependencies = <<>>
        /\ dresp.results[i].candidates = <<F2, F3>>
        /\ dresp.results[i].restoredDependencies = <<F2>>

\* C14 as stated: for every record, set of known ids, backupDeps and
\* planDeps, missing equals candidates minus the record's current
\* dependencies.
C14_MissingIsCandidatesMinusCurrent ==
    \A i \in 1..Len(dresp.results) :
        dresp.results[i].featureId \in FeatureIds =>
            Range(dresp.results[i].restoredDependencies) =
                Range(dresp.results[i].candidates) \ Range(dresp.inputs[i].dependencies)

\* C14: for every record, set of known ids, backupDeps and planDeps, missing
\* equals the candidates that are known ids minus the record's current
\* dependencies, in the order of candidates; it equals candidates minus the
\* current dependencies when every candidate is a known id.
C14_MissingIsKnownCandidatesMinusCurrent ==
    \A i \in 1..Len(dresp.results) :
        LET result == dresp.results[i]
            current == Range(dresp.inputs[i].dependencies)
            Restorable(dep) == dep \in FeatureIds /\ dep \notin current
        IN result.featureId \in FeatureIds =>
              /\ result.restoredDependencies = SelectSeq(result.candidates, Restorable)
              /\ Range(result.candidates) \subseteq FeatureIds =>
                    Range(result.restoredDependencies) = Range(result.candidates) \ current

\* F1 declares f2; f2 and the unknown f3 are candidates, nothing is missing
\* although f3 is a candidate that F1 does not declare
C14_Witness ==
    \E i \in 1..Len(dresp.results) :
        /\ dresp.results[i].featureId = F1
        /\ dresp.inputs[i].dependencies = <<F2>>
        /\ dresp.results[i].candidates = <<F2, F3>>
        /\ dresp.results[i].restoredDependencies = <<>>

\* C15: after a live request, the dependencies persisted for every record are
\* the ones it declared before united with what the answer lists as restored
\* for it, so nothing declared before is removed; and a live request that
\* follows a live request restores nothing for the records the first one
\* processed.
C15_LiveRestoreAdditive ==
    [][(dresp'.name = "restore-dependencies" /\ ~dresp'.request.dryRun) =>
          /\ \A f \in FeatureIds :
                Range(dfeatures'[f].dependencies) =
                    Range(dfeatures[f].dependencies)
                    \cup UNION {Range(dresp'.results[i].restoredDependencies) :
                                  i \in {j \in 1..Len(dresp'.results) :
                                            dresp'.results[j].featureId = f}}
          /\ (dresp.name = "restore-dependencies" /\ ~dresp.request.dryRun) =>
                \A i \in 1..Len(dresp'.results) :
                    dresp'.results[i].featureId
                          \in Range(TargetIds(dresp.request)) \cap FeatureIds =>
                        /\ dresp'.results[i].restoredDependencies = <<>>
                        /\ dfeatures'[dresp'.results[i].featureId]
                              = dfeatures[dresp'.results[i].featureId]]_vars

\* F1 declared the unknown f3 and an empty id; a live request restored f2
\* and F1 now declares the three of them
C15_Witness ==
    /\ dresp.name = "restore-dependencies"
    /\ ~dresp.request.dryRun
    /\ dresp.wrote = {F1}
    /\ dprev[F1].dependencies = <<F3, <<>> >>
    /\ \E i \in 1..Len(dresp.results) :
          /\ dresp.results[i].featureId = F1
          /\ dresp.results[i].restoredDependencies = <<F2>>
    /\ dfeatures[F1].dependencies = <<F3, <<>>, F2>>

\* C16: a dry-run request writes no record and no backup, whatever is
\* missing, and it answers, entry by entry, the missing list a live request
\* answers from the same state, and the candidates list of every entry the
\* live request computes before it has written that record.
C16_DryRunMutatesNothing ==
    [][(dresp'.name = "restore-dependencies" /\ dresp'.request.dryRun) =>
          /\ dfeatures' = dfeatures
          /\ dbackups' = dbackups
          /\ dresp'.wrote = {}
          /\ \A rotate \in BOOLEAN :
                LET live == RestoreHandler(dfeatures, dbackups,
                                [dresp'.request EXCEPT !.dryRun = FALSE], rotate).resp
                IN /\ Len(live.results) = Len(dresp'.results)
                   /\ \A i \in 1..Len(live.results) :
                         /\ live.results[i].featureId = dresp'.results[i].featureId
                         /\ live.results[i].restoredDependencies
                               = dresp'.results[i].restoredDependencies
                         /\ (\A j \in 1..(i - 1) :
                                 live.results[j].featureId = live.results[i].featureId
                                    => live.results[j].restoredDependencies = <<>>)
                               => live.results[i].candidates = dresp'.results[i].candidates]_vars

\* a dry run found f2 missing in F1 and F1 still declares nothing
C16_Witness ==
    /\ dresp.name = "restore-dependencies"
    /\ dresp.request.dryRun
    /\ \E i \in 1..Len(dresp.results) :
          /\ dresp.results[i].featureId = F1
          /\ dresp.results[i].restoredDependencies = <<F2>>
    /\ dfeatures[F1].dependencies = <<>>
    /\ dresp.summary.restoredCount = 0

\* C17 as stated, for restore-dependencies: a request that names an id no
\* record of the project has is answered with a not-found failure and
\* changes no record.
C17_UnknownIdIsNotFound ==
    (/\ dresp.name = "restore-dependencies"
     /\ \E i \in 1..Len(TargetIds(dresp.request)) :
           TargetIds(dresp.request)[i] \notin FeatureIds)
        => (dresp.outcome = "not_found" /\ dresp.wrote = {} /\ dfeatures = dprev)


(***************************************************************************)
(* Properties of the event history store (SpecEvents).                     *)
(***************************************************************************)
\* C19: bounded index.  After any sequence of store calls made one at a
\* time (lists between them read only), the index of a project that events
\* were stored on holds at most MAX_EVENTS_IN_INDEX summaries, the event
\* files of the project are exactly the files of the summaries its index
\* holds, and once more than MAX_EVENTS_IN_INDEX events were stored on it
\* there are exactly MAX_EVENTS_IN_INDEX summaries and event files.
C19_BoundedIndex ==
    \A project \in Projects :
        (ecalls.onlyStores /\ estored[project] # <<>>) =>
            /\ Len(eindex[project]) <= MAX_EVENTS_IN_INDEX
            /\ efiles[project] = Range(eindex[project])
            /\ Len(estored[project]) > MAX_EVENTS_IN_INDEX =>
                   /\ Len(eindex[project]) = MAX_EVENTS_IN_INDEX
                   /\ Cardinality(efiles[project]) = MAX_EVENTS_IN_INDEX

\* C20: newest-first retention.  After any sequence of store calls made one
\* at a time, the index of a project lists the min(n, MAX_EVENTS_IN_INDEX)
\* events stored last on it, of the n stored, from the newest to the oldest.
C20_NewestFirst ==
    \A project \in Projects :
        (ecalls.onlyStores /\ estored[project] # <<>>) =>
            LET n == Len(estored[project])
                kept == IF n < MAX_EVENTS_IN_INDEX THEN n ELSE MAX_EVENTS_IN_INDEX
            IN eindex[project] = [i \in 1..kept |-> estored[project][n + 1 - i]]



C23_FailedWriteLeavesListAlone ==
    [][\A project \in Projects :
          (/\ eop' # eop
           /\ eop'.name \in {"storeFailed", "deleteFailed"}
           /\ eop'.project = project) =>
              GetIndex(project)'.events = GetIndex(project).events]_vars

\* C25: clear empties the history.  A clear returns the number of
\* summaries the index held; when it has returned, index.json and the
\* cached index of the project hold no summary and the project has no
\* event file; a store that follows it leaves a list of exactly the one
\* new event.
C25_ClearEmptiesHistory ==
    [][\A project \in Projects :
          /\ (eop' # eop /\ eop'.name = "clear" /\ eop'.project = project) =>
                /\ eop'.returned = Len(GetIndex(project).events)
                /\ eindex'[project] = <<>>
                /\ GetIndex(project)'.events = <<>>
                /\ efiles'[project] = {}
          /\ (/\ eop.name = "clear" /\ eop.project = project
              /\ eop'.name = "store" /\ eop'.project = project) =>
                GetIndex(project)'.events = <<eop'.returned>>]_vars

(***************************************************************************)
(* Properties of the index writes (SpecWrite).                             *)
(***************************************************************************)
\* C21: atomic index write under crash.  When the process has crashed and
\* the index writes came one at a time, index.json is whole; while a write
\* was under way (before the temp write, during it, or between the temp
\* write and the rename) it is the index as it was before that write, and
\* after the rename it is the index that was written.
C21_CrashLeavesPriorOrNew ==
    (wcrashed /\ ~wseen.concurrent) =>
        /\ IndexFile.whole
        /\ \A w \in Writers :
              wpc[w] # "idle" => IndexFile.content = wjob[w].prior
        /\ (\A w \in Writers : wpc[w] = "idle") => IndexFile.content = wmem

\* a crash between the temp write and the rename of a write that changes
\* the index: the temp file is whole, index.json is the prior index
C21_Witness ==
    /\ wcrashed
    /\ ~wseen.concurrent
    /\ \E w \in Writers :
          /\ wpc[w] = "written"
          /\ wfiles[wjob[w].fd] = [content |-> wjob[w].content, whole |-> TRUE]
          /\ wjob[w].content # wjob[w].prior
          /\ wjob[w].prior # <<>>
          /\ IndexFile = [content |-> wjob[w].prior, whole |-> TRUE]

\* C22: under any interleaving of concurrent store, delete and clear calls
\* on a project, index.json is at every moment the whole serialization of
\* the index of one of the calls (or the index the project started with),
\* also when two calls start their write in the same millisecond.
C22_IndexAlwaysWhole ==
    /\ IndexFile.whole
    /\ IndexFile.content \in wseen.written


(***************************************************************************)
(* Properties of the event fan-out (SpecFanout).                           *)
(***************************************************************************)
\* the callbacks the last emit called with its own event, in call order
CalledByEmit ==
    LET Own(call) == call[2] = fanout.last.id
        own == SelectSeq(fanout.last.calls, Own)
    IN [i \in 1..Len(own) |-> own[i][1]]

\* C26 as stated: in default mode an emit calls every callback that was
\* subscribed when emit was called exactly once, in registration order,
\* and no exception of a callback reaches the caller of emit.
C26_EverySubscriberOnce ==
    (fanout.last.name = "emit" /\ fanout.batchMs = 0) =>
        /\ CalledByEmit = fanout.last.at
        /\ ~fanout.last.escaped

\* C26 as the code has it: in default mode no exception of a callback
\* reaches the caller of emit, whichever callbacks throw; the callbacks
\* called with the event are callbacks that were subscribed when emit was
\* called, each called once, in registration order; and one of those that
\* is not called was unsubscribed by a callback called before its turn.
C26_EveryRemainingSubscriberOnce ==
    (fanout.last.name = "emit" /\ fanout.batchMs = 0) =>
        /\ ~fanout.last.escaped
        /\ LET WasCalled(c) == c \in Range(CalledByEmit)
           IN CalledByEmit = SelectSeq(fanout.last.at, WasCalled)
        /\ \A c \in Range(fanout.last.at) :
              c \notin Range(CalledByEmit) => c \notin Range(subscribers)

\* an emit in default mode with three subscribers of which the first and
\* the last throw: all three were called, in registration order
C26_Witness ==
    /\ fanout.last.name = "emit"
    /\ fanout.batchMs = 0
    /\ Len(fanout.last.at) = 3
    /\ fanout.behaviour[fanout.last.at[1]] = "throw"
    /\ fanout.behaviour[fanout.last.at[3]] = "throw"
    /\ CalledByEmit = fanout.last.at

\* the last n members of a sequence
LastN(seq, n) ==
    IF Len(seq) <= n THEN seq ELSE SubSeq(seq, Len(seq) - n + 1, Len(seq))

\* the events the last flush called callback c with, in call order
FlushedTo(c) ==
    LET To(call) == call[1] = c
        to == SelectSeq(fanout.last.calls, To)
    IN [i \in 1..Len(to) |-> to[i][2]]

\* C27: bounded lossy queue.  In batching mode the queue never holds more
\* than maxQueueSize events: it holds the most recent of the events emitted
\* since the last flush took the queue, at most maxQueueSize, in emission
\* order (an emit on a full queue has dropped the oldest).  A flush takes
\* exactly those events and calls a callback that is subscribed from the
\* start of the flush to its end with each of them, in emission order.
C27_BoundedLossyQueue ==
    fanout.batchMs # 0 =>
        /\ Len(queue) <= fanout.maxQueueSize
        /\ queue = LastN(fanout.since, fanout.maxQueueSize)
        /\ fanout.last.name = "flush" =>
              /\ fanout.last.flushed = LastN(fanout.last.since, fanout.maxQueueSize)
              /\ \A c \in Range(fanout.last.at) \cap Range(subscribers) :
                    FlushedTo(c) = [i \in 1..Len(fanout.last.flushed) |->
                                       fanout.last.flushed[i].id]

\* a flush after more emits than the queue holds: the oldest event was
\* dropped, and a callback was called with the others, oldest first
C27_Witness ==
    /\ fanout.batchMs # 0
    /\ fanout.last.name = "flush"
    /\ fanout.maxQueueSize = 2
    /\ Len(fanout.last.since) = 3
    /\ Len(fanout.last.flushed) = 2
    /\ fanout.last.since[1].id \in fanout.dropped
    /\ \E c \in Callbacks :
          FlushedTo(c) = <<fanout.last.since[2].id, fanout.last.since[3].id>>

\* C28: flush timer discipline.  At most one flush timer is pending; the
\* variable flushTimer holds a timer exactly when one is pending; a timer
\* is pending exactly when the queue is not empty, so none stays pending
\* once the queue has been drained, also when a subscriber emitted during
\* the flush (the queue is then not empty and a new timer is pending).
C28_TimerDiscipline ==
    /\ timers <= 1
    /\ (flushTimer # 0) <=> (timers = 1)
    /\ (timers = 1) <=> (queue # <<>>)
    /\ fanout.batchMs = 0 => timers = 0

\* a flush during which a subscriber emitted has ended: the event emitted
\* during the flush is queued and one timer is pending for it
C28_Witness ==
    /\ fanout.batchMs # 0
    /\ fanout.last.name = "flush"
    /\ fanout.last.flushed # <<>>
    /\ Len(queue) = 1
    /\ queue[1].type = "b"
    /\ queue[1].id > fanout.last.flushed[Len(fanout.last.flushed)].id
    /\ timers = 1
    /\ flushTimer # 0

\* the ids of the events in the queue
Queued == {queue[i].id : i \in 1..Len(queue)}

\* C29 as stated: when timers fire, every event in the queue is in the end
\* taken by a flush or dropped because the queue was full, never both, and
\* a flush calls every callback that was subscribed when the flush began
\* exactly once with each event it took; no callback is called twice with
\* the same event.
C29_DeliveredToEverySubscriber ==
    /\ \A id \in 1..MaxEmits :
          (id \in Queued) ~> (id \notin Queued /\ id \in fanout.dropped \cup fanout.taken)
    /\ [](fanout.batchMs # 0 =>
            /\ fanout.dropped \cap fanout.taken = {}
            /\ \A c \in Callbacks : NoDuplicate(delivered[c])
            /\ fanout.last.name = "flush" =>
                  \A c \in Range(fanout.last.at) :
                      \A i \in 1..Len(fanout.last.flushed) :
                          Cardinality({k \in 1..Len(FlushedTo(c)) :
                              FlushedTo(c)[k] = fanout.last.flushed[i].id}) = 1)

\* C29 as the code has it: eventual delivery in batching mode.  When timers
\* fire, every event in the queue is in the end taken by a flush or dropped
\* because the queue was full, and never both; a flush calls each callback
\* at most once with an event it took, and exactly once when the callback
\* is subscribed from the start of the flush to its end; no callback is
\* ever called twice with the same event, and never with a dropped one.
C29_EventualDelivery ==
    /\ \A id \in 1..MaxEmits :
          (id \in Queued) ~> (id \notin Queued /\ id \in fanout.dropped \cup fanout.taken)
    /\ [](fanout.batchMs # 0 =>
            /\ fanout.dropped \cap fanout.taken = {}
            /\ Queued \cap (fanout.dropped \cup fanout.taken) = {}
            /\ \A c \in Callbacks :
                  /\ NoDuplicate(delivered[c])
                  /\ Range(delivered[c]) \subseteq fanout.taken
            /\ fanout.last.name = "flush" =>
                  \A c \in Range(fanout.last.at) \cap Range(subscribers) :
                      \A i \in 1..Len(fanout.last.flushed) :
                          Cardinality({k \in 1..Len(FlushedTo(c)) :
                              FlushedTo(c)[k] = fanout.last.flushed[i].id}) = 1)

\* all that was emitted has left the queue: one event was dropped, the
\* others were taken by a flush and handed to a callback
C29_Witness ==
    /\ fanout.batchMs # 0
    /\ emitted = MaxEmits
    /\ queue = <<>>
    /\ timers = 0
    /\ Cardinality(fanout.dropped) = 1
    /\ Cardinality(fanout.taken) = MaxEmits - 1
    /\ \E c \in Callbacks : Range(delivered[c]) = fanout.taken


(***************************************************************************)
(* Timestamps of reconciled tasks (SpecReconcile).                         *)
(***************************************************************************)
\* C30: in every result of reconcile every task whose status is completed
\* has completedAt set, the tasks without a filePath that were completed
\* in the input included.
C30_CompletedHasCompletedAt ==
    \A r \in {r1, r2} :
        ~r.isNull =>
            \A i \in 1..Len(r.tasks) :
                r.tasks[i].status = "completed" => r.tasks[i].completedAt # 0


(***************************************************************************)
(* Properties of the task extractor (SpecExtract).                         *)
(***************************************************************************)
\* the number a sequence of decimal digits denotes
RECURSIVE NumberOf(_)
NumberOf(digits) ==
    IF digits = <<>> THEN 0
    ELSE 10 * NumberOf(SubSeq(digits, 1, Len(digits) - 1)) + digits[Len(digits)]

\* C31: a raw id the extractor accepts whose number is below 1000 is
\* normalized to T and exactly three digits that denote that number, so
\* that raw ids of one number get one id.
C31_ThreeDigitId ==
    (xpc = "parsed" /\ xtask # <<>> /\ NumberOf(xline.digits) < 1000) =>
        /\ Len(xtask[1].id) = 3
        /\ NumberOf(xtask[1].id) = NumberOf(xline.digits)


(***************************************************************************)
(* Properties of the event store step by step (SpecStoreSteps).            *)
(***************************************************************************)
\* C32: while only store calls are made on the project, in any
\* interleaving, every event whose store call has returned and that was
\* not pruned as one of the oldest is listed in index.json on disk.
C32_NoStoredEventLost ==
    sseen.onlyStores =>
        \A id \in sseen.returned \ sseen.gone :
            sindex # NoIndexFile /\ id \in Range(sindex)


\* C33: at every step of store, delete, prune and clear, every summary in
\* index.json on disk has its event file on disk, so that a process that
\* starts after a crash at that step finds the file of every event it lists.
C33_IndexImpliesFile ==
    sindex # NoIndexFile => Range(sindex) \subseteq sfiles


(***************************************************************************)
(* Isolation of the projects in the event store (SpecEvents).              *)
(***************************************************************************)
\* C34: project isolation.  A store, a delete or a clear on one project
\* leaves what getEvents returns for every other project of the same
\* service instance as it was.
C34_ProjectIsolation ==
    [][\A project \in Projects, other \in Projects :
          (/\ other # project
           /\ eop'.name \in {"store", "delete", "clear"}
           /\ eop'.project = project) =>
              GetIndex(other)'.events = GetIndex(other).events]_vars


(***************************************************************************)
(* Properties of apply-plan (SpecApply).                                   *)
(***************************************************************************)
\* C35: when apply has returned, no record that exists lists in its
\* dependencies the id of a record the plan deleted.
C35_NoDanglingDependency ==
    aresp.done =>
        \A id \in ApplyIds :
            astore[id].exists =>
                \A deleted \in aresp.deleted : ~Includes(astore[id].dependencies, deleted)


(***************************************************************************)
(* Properties of the recovery report (Spec).                               *)
(***************************************************************************)
\* C36: when a resume-pending request on a record of the project, served by
\* a handler that has the auto mode service, directly follows a
\* recovery-center request (nothing changed in between), then for the item
\* of that record in the report: canResume = true means the request is not
\* declined, and canResume = false means it is declined.
C36_CanResumeAgreesWithResume ==
    [][(/\ report.given
        /\ lastOp'.name = "resume-pending"
        /\ lastOp'.outcome \notin {"error", "not_found"}) =>
          \A i \in 1..Len(report.items) :
              report.items[i].featureId = lastOp'.fid =>
                  (report.items[i].canResume <=> lastOp'.outcome # "declined")]_vars

\* C40: in the report of recovery-center, an item whose issues hold 'Status
\* out of sync with plan' belongs to a record for which reconcile returned
\* null; a record reconcile returned a result for never carries the issue.
C40_MismatchOnlyWithoutReconcile ==
    report.given =>
        \A i \in 1..Len(report.items) :
            (\E k \in 1..Len(report.items[i].issues) :
                 report.items[i].issues[k] = "Status out of sync with plan")
               => report.reconciled[report.items[i].featureId].isNull

\* recovery-center found F1 approved, verified and with one task of two
\* left, repaired its status to backlog and persisted it, and the item of
\* F1 reports the incomplete plan without the status-mismatch issue
C40_Witness ==
    /\ report.given
    /\ lastOp.wrote = {F1}
    /\ ~report.reconciled[F1].isNull
    /\ features[F1].status = "backlog"
    /\ features[F1].planSpec.status = "approved"
    /\ report.entries[F1].canResume
    /\ report.entries[F1].issues = <<"Plan incomplete", "Missing expected files", "Agent output missing">>

(***************************************************************************)
(* Properties of the Output Rebuilder (Spec).                              *)
(***************************************************************************)
\* the request just served saved a rebuilt agent-output.md for record f
Rebuilt(f) ==
    /\ lastOp'.name \in {"reconcile-plan", "rebuild-output", "resume-pending"}
    /\ lastOp'.fid = f
    /\ lastOp'.outcome \in {"ok", "resumed"}
    /\ outputs'[f] # NoOutput
    /\ outputs'[f][1] = TextLine("# Rebuilt Output")

\* C37: when a handler has saved the rebuilt text of a record, extracting
\* the tasks from that text yields the tasks the text was built from (the
\* task list of the persisted record): same number, and at each position
\* the same id, description and file path, whatever the statuses are.
C37_RebuildThenExtract ==
    [][\A f \in FeatureIds :
          Rebuilt(f) =>
              LET tasks == features'[f].planSpec.tasks
                  extracted == ParseTasksFromContent(outputs'[f])
              IN /\ Len(extracted) = Len(tasks)
                 /\ \A i \in 1..Len(tasks) :
                       /\ extracted[i].id = tasks[i].id
                       /\ extracted[i].description = tasks[i].description
                       /\ extracted[i].filePath = tasks[i].filePath]_vars

\* C38: when a handler has saved the rebuilt text of a record from the
\* tasks and missingFiles of its reconciliation, every task with a filePath
\* has a row in exactly one of the Files Found and Missing Files sections,
\* and a task the reconciler reports completed has its row under Files
\* Found.
C38_FoundMissingPartition ==
    [][\A f \in FeatureIds :
          (Rebuilt(f) /\ lastOp'.name \in {"reconcile-plan", "resume-pending"}) =>
              LET tasks == features'[f].planSpec.tasks
                  Listed(kind, filePath) ==
                      \E k \in 1..Len(outputs'[f]) :
                          outputs'[f][k].k = kind /\ outputs'[f][k].file = filePath
              IN \A i \in 1..Len(tasks) :
                    tasks[i].filePath # NoPath =>
                        /\ Listed("fileRow", tasks[i].filePath)
                             # Listed("missingRow", tasks[i].filePath)
                        /\ tasks[i].status = "completed" =>
                               Listed("fileRow", tasks[i].filePath)]_vars

(***************************************************************************)
(* Unsubscribing (SpecFanout).                                             *)
(***************************************************************************)
\* callback c is a member of the Set subscribers
Subscribed(c) == \E i \in 1..Len(subscribers) : subscribers[i] = c

\* callback a, when invoked, calls the unsubscribe function of callback b
Unsubscribes(a, b) ==
    \/ fanout.behaviour[a] = "unsubscribeSelf" /\ b = a
    \/ fanout.behaviour[a] = "unsubscribeOther" /\ b = OtherCallback(a)

\* C39: a callback that is not subscribed (never was, or its unsubscribe
\* function was called and it was not passed to subscribe again) is invoked
\* by no emit and no flush, in batching mode also not for events that were
\* queued while it was subscribed; and within one emit or flush, once a
\* callback has called the unsubscribe function of a callback, that
\* callback is not invoked any more.
C39_UnsubscribeIsFinal ==
    [][/\ \A c \in Callbacks : ~Subscribed(c) => delivered'[c] = delivered[c]
       /\ LET calls == fanout'.last.calls
          IN \A i \in 1..Len(calls), j \in 1..Len(calls) :
                i < j => ~Unsubscribes(calls[i][1], calls[j][1])]_vars

\* default mode: callbacks 1 and 2 were subscribed, in this order, when an
\* event was emitted; callback 1 was invoked and unsubscribed callback 2,
\* which was not invoked for the event
C39_Witness ==
    /\ fanout.batchMs = 0
    /\ fanout.last.name = "emit"
    /\ Len(fanout.last.at) >= 2
    /\ fanout.last.at[1] = 1
    /\ fanout.last.at[2] = 2
    /\ fanout.behaviour[1] = "unsubscribeOther"
    /\ fanout.last.calls[1][1] = 1
    /\ \A k \in 1..Len(fanout.last.calls) : fanout.last.calls[k][1] # 2
    /\ ~Subscribed(2)
====
